---- MODULE Spec2Model ----
(***************************************************************************)
(* A model of the persistent multi-word compare-and-swap (PMwCAS) library. *)
(*                                                                         *)
(* Memory is modelled in two layers.  `mem' is the content of the CPU      *)
(* caches, i.e. what loads, stores and CAS instructions of every thread    *)
(* see.  The persistent medium is what survives a crash.  A cache line     *)
(* reaches the medium                                                      *)
(*   - spontaneously at any moment (cache eviction), or                    *)
(*   - at an arbitrary moment between a pmem_flush of the line and the     *)
(*     next pmem_drain of the flushing thread (at the drain at the latest).*)
(* The program cannot observe a write-back before it crashes, so the model *)
(* keeps, for every line, the set `pm' of the contents the medium may hold *)
(* at this moment (the contents the line has had since the last moment a   *)
(* drain forced it), and the crash picks one of them for every line.       *)
(* The descriptors live in persistent memory too (`desc' / `pdesc').       *)
(*                                                                         *)
(* Every atomic access of the code is one step of the model; threads are   *)
(* interleaved arbitrarily (sequentially consistent atomics).              *)
(***************************************************************************)
EXTENDS Integers, Sequences, FiniteSets, TLC

(***************************************************************************)
(* Program constants                                                       *)
(***************************************************************************)

\* utility.hpp: `0b1UL << 63UL'; the 64-bit word is scaled down to 6 bits,
\* the dirty flag staying the most significant bit.
kDirtyFlag == 32

\* utility.hpp: `0b1UL << 62UL'; the second most significant bit.
kPMwCASFlag == 16

\* utility.hpp: kIsIntermediate = kDirtyFlag | kPMwCASFlag
kIsIntermediate == kDirtyFlag + kPMwCASFlag

\* utility.hpp: PMEM_ATOMIC_PMWCAS_CAPACITY (a build parameter).
kPMwCASCapacity == 2

\* utility.hpp: PMEM_ATOMIC_SPINLOCK_RETRY_NUM (a build parameter).
kRetryNum == 1

\* descriptor_pool.cpp: ::dbgroup::thread::kMaxThreadNum, the number of
\* thread IDs and therefore of descriptors in the pool.
kMaxThreadNum == 2

\* utility.hpp: kPMEMLineSize, the alignment of Intel Optane in bytes.
kPMEMLineSize == 256

\* include/pmwcas/descriptor_pool.hpp: kDescriptorPoolSize, the number of
\* descriptors of the reservation-based pool (PMWCAS_DESCRIPTOR_POOL_SIZE, a
\* build parameter).
kDescriptorPoolSize == 2

\* component/common.hpp: enum DescStatus
kCompleted == 0
kFailed == 1
kSucceeded == 2

\* The reserved bits of PMwCASWord: kPMwCASFlag is bit 63 and kDirtyFlag bit
\* 62 of 64; here the two highest bits of a word of six.
kWordPMwCASFlag == 32
kWordDirtyFlag == 16

\* The build option PMWCAS_USE_DIRTY_FLAG; the dirty-flag variant is modelled.
kUseDirtyFlag == TRUE

\* sizeof(PMwCASDescriptor), in units of kPMEMLineSize: the class is
\* alignas(kPMEMLineSize) and the model's descriptor fits in one line.
kDescSize == 1

(***************************************************************************)
(* Bounds of the model                                                     *)
(***************************************************************************)

\* The number of target words in the user's persistent pool.
NumWords == 2

\* User values are 0..MaxVal (always below kPMwCASFlag).
MaxVal == 1

\* The number of operations (PMwCAS with its Add calls, PCAS, PLoad) that are
\* started in one behaviour, by all threads together.
MaxOps == 2

\* The number of crashes in one behaviour.
MaxCrash == 2

\* The number of PMwCAS calls (first attempts and retries, all threads
\* together) in one behaviour of the increment workload.
MaxTries == 3

\* The number of Get calls of one OS thread while it lives.
MaxGets == 2

\* The width in bits of an address in the address computation of the
\* constructor (uintptr_t has 64).
AddrBits == 12

\* The largest root address the allocator returns; the root object ends
\* inside the address space.
MaxRoot == 1024

\* The number of operations (PLoad, PCAS, PMwCAS) started before the crash in
\* one behaviour of the workload that reads and increments.
MaxDur == 3

Threads == 0 .. (kMaxThreadNum - 1)

\* The OS threads of GetAllDescriptor: one per descriptor and an extra one.
Workers == 1 .. (kMaxThreadNum + 1)

\* An OS thread that holds no thread ID.
NoId == 0 - 1
DeadWorker == [id |-> NoId, got |-> {}, calls |-> 0]

\* descriptor_pool.cpp: kDescPoolSize, the size in bytes of the root object
\* (sizeof(PMwCASDescriptor) * (kMaxThreadNum + 1)).
kDescPoolSize == kDescSize * kPMEMLineSize * (kMaxThreadNum + 1)

\* The address space of the address computation: 0 .. 2^AddrBits - 1.
AddrSpace == 2 ^ AddrBits

\* No address computation is under examination.
NoPool == [step |-> "none", root |-> 0, desc_pool |-> 0]

\* include/pmwcas/descriptor_pool.hpp: the positions of reserve_arr_ and of
\* DescArray::descriptors.
Slots == 0 .. (kDescriptorPoolSize - 1)

\* An OS thread outside Get whose thread_local ptr is null.
NoHolder == [pc |-> "out", i |-> 0, ptr |-> NoId, got |-> {}, calls |-> 0]

\* The reservation-based pool after its constructor: no position reserved.
\* rsv.freed collects the positions a destructor of ElementHolder has
\* released.
NoReservation ==
  [reserve_arr |-> [i \in Slots |-> FALSE],
   holder |-> [o \in Workers |-> NoHolder],
   freed |-> {}]

\* No PMwCASWord object is under examination.
NoWords == [step |-> "none", va |-> 0, fa |-> FALSE, vb |-> 0, fb |-> FALSE,
            a |-> 0, b |-> 0, orig |-> 0, mid |-> 0]
Words == 1 .. NumWords
Values == 0 .. MaxVal
TargetIdx == 1 .. kPMwCASCapacity

(***************************************************************************)
(* Tagged words (bit operations on the scaled word)                        *)
(***************************************************************************)

\* `word & flag' for a single-bit flag, as a boolean.
HasFlag(word, flag) == (word \div flag) % 2 = 1

\* `word | flag'
SetFlag(word, flag) == IF HasFlag(word, flag) THEN word ELSE word + flag

\* `word & ~flag'
ClearFlag(word, flag) == IF HasFlag(word, flag) THEN word - flag ELSE word

\* `(word & kIsIntermediate) != 0'
IsIntermediate(word) == HasFlag(word, kDirtyFlag) \/ HasFlag(word, kPMwCASFlag)

\* PMwCASDescriptor::Initialize: desc_addr_ = pmemobj_oid(this).off | kPMwCASFlag.
\* The pool offset of slot t is modelled as t + 1 (non-zero, distinct per slot).
DescAddr(t) == SetFlag(t + 1, kPMwCASFlag)

\* A default-constructed target (no address).
NoTarget == [addr |-> 0, old_val |-> 0, new_val |-> 0]

\* A descriptor as created in a fresh pool file.
EmptyDesc == [status |-> kCompleted, target_count |-> 0,
              targets |-> [i \in TargetIdx |-> NoTarget]]

\* The local variables of a thread outside of any call.
IdleThread == [pc |-> "idle", i |-> 0, retry |-> 0, embedded |-> 0, n |-> 0,
               addr |-> 0, word |-> 0, orig |-> 0, spin |-> 0,
               expected |-> 0, desired |-> 0, caller |-> "none",
               ret |-> "none"]

VARIABLES
  mem,      \* [Words -> word]  visible content of the target words
  pm,       \* [Words -> set of words]  contents the medium may hold
  pendW,    \* [Threads -> [Words -> set of words]]  for a word the thread has
            \*    flushed and not drained yet: its contents since the flush
  desc,     \* [Threads -> descriptor]  visible content of the descriptors
  pdesc,    \* [Threads -> [hdr, targets]]  contents the medium may hold for
            \*    the header (status_, target_count_) and for every targets_[i]
  pendD,    \* [Threads -> [hdr, targets]]  as pendW, for the descriptor of
            \*    the thread
  th,       \* [Threads -> local state of the thread]
  phase,    \* "run"; "open" while the DescriptorPool constructor runs;
            \*    "fault" when the constructor has been killed
  slot,     \* the slot the constructor initializes next
  ops,      \* the number of operations started so far
  gh,       \* history variables used to state the properties
  tls,      \* [Workers -> [id, got]]  per OS thread: the thread ID it holds
            \*    and the descriptor pointers Get has returned to it
  wd,       \* the PMwCASWord objects of the word-level operations
  rsv,      \* the reservation-based pool: reserve_arr_ and, per OS thread,
            \*    its position in Get and the ElementHolder it owns
  pool      \* the address computation of the constructor: the root address
            \*    and desc_pool_

\* The state of the parts that are examined on their own.
unitVars == <<tls, wd, rsv, pool>>

vars == <<mem, pm, pendW, desc, pdesc, pendD, th, phase, slot, ops, gh, tls, wd, rsv, pool>>

(***************************************************************************)
(* Persistence primitives                                                  *)
(***************************************************************************)

\* The contents the medium may hold for a line after v is stored to it.
Stored(c, v) == c \cup {v}

\* The contents of a line since a pending flush (q = {}: no flush is
\* pending), after v is stored to it.
StoredPend(q, v) == IF q = {} THEN {} ELSE q \cup {v}

\* The contents the medium may hold for a line after the drain that follows
\* a flush: one of those the line has had since the flush.
Drained(c, q) == IF q = {} THEN c ELSE c \cap q

\* A store (or a successful CAS) of v to word w.
StoreWord(w, v) ==
  /\ mem' = [mem EXCEPT ![w] = v]
  /\ pm' = [pm EXCEPT ![w] = Stored(@, v)]
  /\ pendW' = [u \in Threads |-> [pendW[u] EXCEPT ![w] = StoredPend(@, v)]]

\* A store of v to word w by thread t followed by its pmem_flush of the word.
StoreFlushWord(t, w, v) ==
  /\ mem' = [mem EXCEPT ![w] = v]
  /\ pm' = [pm EXCEPT ![w] = Stored(@, v)]
  /\ pendW' = [u \in Threads |->
                 [pendW[u] EXCEPT ![w] = IF u = t THEN {v} ELSE StoredPend(@, v)]]

\* pmem_drain() by thread t for the words, after t has in addition flushed
\* the words fw.
DrainWords(t, fw) ==
  /\ pm' = [w \in Words |-> IF w \in fw THEN {mem[w]} ELSE Drained(pm[w], pendW[t][w])]
  /\ pendW' = [pendW EXCEPT ![t] = [w \in Words |-> {}]]

\* The header of a descriptor: the two words status_ and target_count_.
Hdr(d) == [status |-> d.status, target_count |-> d.target_count]

NoPendD == [hdr |-> {}, targets |-> [i \in TargetIdx |-> {}]]

\* The image of descriptor d on the medium when every line of it has been
\* written back.
Persisted(d) == [hdr |-> {Hdr(d)}, targets |-> [i \in TargetIdx |-> {d.targets[i]}]]

\* pmem_drain() by thread t for its descriptor.
DrainDesc(t) ==
  /\ pdesc' = [pdesc EXCEPT ![t] =
                 [hdr |-> Drained(@.hdr, pendD[t].hdr),
                  targets |-> [i \in TargetIdx |->
                                 Drained(@.targets[i], pendD[t].targets[i])]]]
  /\ pendD' = [pendD EXCEPT ![t] = NoPendD]

\* All functions g on the set D with g[x] \in f[x]: the ways to pick one
\* content for every line.
RECURSIVE Pick(_, _)
Pick(f, D) ==
  IF D = {} THEN {[x \in {} |-> 0]}
  ELSE LET x == CHOOSE y \in D : TRUE
       IN {[y \in D |-> IF y = x THEN v ELSE g[y]] : v \in f[x], g \in Pick(f, D \ {x})}

(***************************************************************************)
(* History variables                                                       *)
(***************************************************************************)

\* The words registered in the first n targets of descriptor d.
TargetWords(d, n) == {d.targets[i].addr : i \in 1 .. n}

InPMwCAS(t) ==
  th[t].pc \in {"prepare_drain", "embed_load", "embed_cas", "commit", "commit_drain",
                "redo", "undo", "finish"}

\* gh.fresh[t] after thread u has written word w: a PMwCAS call of another
\* thread that has w among its targets is no longer free of other writers.
Touched(u, w) ==
  [t \in Threads |->
     gh.fresh[t] /\ ~(t # u /\ InPMwCAS(t) /\ w \in TargetWords(desc[t], th[t].n))]

\* The history after thread u has written word w.
Wrote(u, w) == [gh EXCEPT !.fresh = Touched(u, w), !.writer[w] = u, !.quiet = FALSE]

\* The history after the PMwCAS call of thread u has written word w.
WroteInCall(u, w) == [Wrote(u, w) EXCEPT !.wr[u] = @ \cup {w}]

\* gh.inst[t][w] is the target (address, old and new value) of the PMwCAS
\* call of thread t that has last embedded its descriptor in word w.

\* gh.read[w] is the largest value a PLoad of word w has returned.  The
\* history after a step that has left thread-local state l: a PLoad that
\* has returned in this step is recorded.
NoteRead(g, l) ==
  IF l.pc = "idle" /\ l.ret = "pload"
    THEN [g EXCEPT !.read[l.addr] = IF l.word > @ THEN l.word ELSE @]
    ELSE g

\* The result of the last PMwCAS call of a thread that has not called one, or
\* has started another PMwCAS or PCAS since.
NoResult == [ret |-> "none", embedded |-> 0, n |-> 0]

\* What is recorded at a crash about a thread that was not inside PMwCAS, or
\* whose targets had been written by another thread.
NoCrashInfo == [inop |-> FALSE, n |-> 0, durable |-> FALSE, committed |-> FALSE,
                targets |-> [i \in TargetIdx |-> NoTarget]]

\* An operation may be started by a thread only while fewer than max
\* operations have been started (Add calls belong to the PMwCAS they prepare).
CanStart(t, max) == desc[t].target_count > 0 \/ ops < max

(***************************************************************************)
(* PMwCASDescriptor::Add                                                   *)
(***************************************************************************)

\* assert(target_count_ < kPMwCASCapacity);
\* targets_[target_count_++] = PMwCASTarget{addr, old_val, new_val, fence};
Add(t, w, o, n) ==
  /\ phase = "run" /\ th[t].pc = "idle"
  /\ desc[t].target_count < kPMwCASCapacity
  /\ LET k == desc[t].target_count + 1
         tgt == [addr |-> w, old_val |-> o, new_val |-> n]
         d == [desc[t] EXCEPT !.targets[k] = tgt, !.target_count = k]
     IN /\ desc' = [desc EXCEPT ![t] = d]
        /\ pdesc' = [pdesc EXCEPT ![t].targets[k] = Stored(@, tgt),
                                  ![t].hdr = Stored(@, Hdr(d))]
        /\ pendD' = [pendD EXCEPT ![t].targets[k] = StoredPend(@, tgt),
                                  ![t].hdr = StoredPend(@, Hdr(d))]
  /\ ops' = IF desc[t].target_count > 0 THEN ops ELSE ops + 1
  /\ th' = [th EXCEPT ![t] = IdleThread]
  /\ gh' = [gh EXCEPT !.quiet = FALSE, !.last[t] = NoResult,
                      !.opid[t] = IF desc[t].target_count > 0 THEN @ ELSE ops']
  /\ UNCHANGED <<mem, pm, pendW, phase, slot>>
  /\ UNCHANGED unitVars

\* Add on a descriptor that holds kPMwCASCapacity targets already.  Built
\* without NDEBUG the assertion ends the process.  Built with NDEBUG the
\* assertion is no code: the target is stored behind the last element of
\* targets_ and target_count_ becomes kPMwCASCapacity + 1; what the program
\* does after this store is not defined, the model follows it no further.
Add_Full(t, w, o, n) ==
  /\ phase = "run" /\ th[t].pc = "idle"
  /\ desc[t].target_count = kPMwCASCapacity
  /\ \/ /\ phase' = "abort"
        /\ UNCHANGED <<desc, pdesc, pendD, gh>>
     \/ /\ phase' = "overrun"
        /\ LET d == [desc[t] EXCEPT !.target_count = kPMwCASCapacity + 1]
           IN /\ desc' = [desc EXCEPT ![t] = d]
              /\ pdesc' = [pdesc EXCEPT ![t].hdr = Stored(@, Hdr(d))]
              /\ pendD' = [pendD EXCEPT ![t].hdr = StoredPend(@, Hdr(d))]
        /\ gh' = [gh EXCEPT !.past[t] = [addr |-> w, old_val |-> o, new_val |-> n]]
  /\ UNCHANGED <<mem, pm, pendW, th, slot, ops>>
  /\ UNCHANGED unitVars

\* The older interface:
\*   if (target_count_ == kPMwCASCapacity) return false;
\*   targets_[target_count_++] = PMwCASTarget{addr, old_val, new_val};
\*   return true;
AddPMwCASTarget(t, w, o, n) ==
  IF desc[t].target_count = kPMwCASCapacity
    THEN /\ phase = "run" /\ th[t].pc = "idle"
         /\ th' = [th EXCEPT ![t] = [IdleThread EXCEPT !.ret = "add_false"]]
         /\ UNCHANGED <<mem, pm, pendW, desc, pdesc, pendD, phase, slot, ops, gh>>
         /\ UNCHANGED unitVars
    ELSE Add(t, w, o, n)

(***************************************************************************)
(* PMwCASDescriptor::PMwCAS                                                *)
(***************************************************************************)

\* A faulty end of the embedding loop that goes on to commit although a
\* target could not be embedded.
AfterEmbed_IgnoreFailure(l, embedded) ==
  [l EXCEPT !.pc = "commit", !.embedded = l.n, !.i = 0, !.retry = 0, !.word = 0]

\* The control state after the embedding loop has ended with `embedded'
\* targets embedded out of n.
AfterEmbed(l, embedded) ==
  IF embedded < l.n
    THEN [l EXCEPT !.pc = IF embedded > 0 THEN "undo" ELSE "finish",
                   !.embedded = embedded, !.i = 0, !.retry = 0, !.word = 0]
    ELSE [l EXCEPT !.pc = "commit", !.embedded = embedded, !.i = 0, !.retry = 0,
                   !.word = 0]

\* status_ = kFailed and the flush half of pmem_persist(this, desc_size):
\* the header and the first target_count_ targets are flushed.
PMwCAS_Prepare(t) ==
  /\ phase = "run" /\ th[t].pc = "idle"
  /\ LET d == [desc[t] EXCEPT !.status = kFailed]
     IN /\ desc' = [desc EXCEPT ![t] = d]
        /\ pdesc' = [pdesc EXCEPT ![t].hdr = Stored(@, Hdr(d))]
        /\ pendD' = [pendD EXCEPT ![t] =
                       [hdr |-> {Hdr(d)},
                        targets |-> [i \in TargetIdx |->
                                       IF i <= d.target_count THEN {d.targets[i]}
                                                              ELSE @.targets[i]]]]
  /\ ops' = IF desc[t].target_count > 0 THEN ops ELSE ops + 1
  /\ th' = [th EXCEPT ![t] = [IdleThread EXCEPT !.pc = "prepare_drain",
                                                 !.n = desc[t].target_count]]
  /\ gh' = [gh EXCEPT !.quiet = FALSE, !.last[t] = NoResult, !.wr[t] = {},
                      !.opid[t] = IF desc[t].target_count > 0 THEN @ ELSE ops',
                      !.fresh[t] = \A i \in 1 .. desc[t].target_count :
                          mem[desc[t].targets[i].addr] = desc[t].targets[i].old_val]
  /\ UNCHANGED <<mem, pm, pendW, phase, slot>>
  /\ UNCHANGED unitVars

\* The drain half of pmem_persist(this, desc_size).
PMwCAS_PrepareDrain(t) ==
  /\ phase = "run" /\ th[t].pc = "prepare_drain"
  /\ DrainWords(t, {})
  /\ DrainDesc(t)
  /\ th' = [th EXCEPT ![t] = IF th[t].n > 0 THEN [@ EXCEPT !.pc = "embed_load"]
                                            ELSE AfterEmbed(@, 0)]
  /\ UNCHANGED <<mem, desc, phase, slot, ops, gh>>
  /\ UNCHANGED unitVars

\* A faulty end of EmbedDescriptor that reports success although the
\* descriptor has not been embedded: PMwCAS goes on with the next target.
EmbedFailed_Commit(l, expected) ==
  IF l.i + 1 < l.n
    THEN [l EXCEPT !.pc = "embed_load", !.i = @ + 1, !.retry = 0, !.word = 0]
    ELSE AfterEmbed(l, l.i + 1)

\* A faulty end of an attempt that tries again as long as the word is
\* intermediate, however many attempts it has made.
EmbedFailed_NoLimit(l, expected) ==
  IF ~IsIntermediate(expected)
    THEN AfterEmbed(l, l.i)
    ELSE [l EXCEPT !.pc = "embed_load",
                   !.retry = IF @ < kRetryNum THEN @ + 1 ELSE @, !.word = 0]

\* A faulty end of an attempt that tries again whatever it has observed, as
\* long as retries are left.
EmbedFailed_RetryClean(l, expected) ==
  IF l.retry >= kRetryNum
    THEN AfterEmbed(l, l.i)
    ELSE [l EXCEPT !.pc = "embed_load", !.retry = @ + 1, !.word = 0]

\* PMwCASTarget::EmbedDescriptor, after `expected' has been observed to differ
\* from old_val_ or the CAS has failed:
\*   if ((expected & kIsIntermediate) == 0 || i >= kRetryNum) return false;
EmbedFailed(l, expected) ==
  IF ~IsIntermediate(expected) \/ l.retry >= kRetryNum
    THEN AfterEmbed(l, l.i)
    ELSE [l EXCEPT !.pc = "embed_load", !.retry = @ + 1, !.word = 0]

\* A faulty EmbedDescriptor that does not compare the loaded word with
\* old_val_ and swaps the descriptor in for whatever it has loaded.
Embed_Load_NoCompare(t) ==
  /\ phase = "run" /\ th[t].pc = "embed_load"
  /\ th' = [th EXCEPT ![t].pc = "embed_cas",
                      ![t].word = mem[desc[t].targets[th[t].i + 1].addr]]
  /\ UNCHANGED <<mem, pm, pendW, desc, pdesc, pendD, phase, slot, ops, gh>>
  /\ UNCHANGED unitVars

\* PMwCASTarget::EmbedDescriptor: expected = addr->load(kMORelax)
Embed_Load(t) ==
  /\ phase = "run" /\ th[t].pc = "embed_load"
  /\ LET tgt == desc[t].targets[th[t].i + 1]
         expected == mem[tgt.addr]
     IN th' = [th EXCEPT ![t] = IF expected = tgt.old_val
                                  THEN [@ EXCEPT !.pc = "embed_cas", !.word = expected]
                                  ELSE EmbedFailed(@, expected)]
  /\ UNCHANGED <<mem, pm, pendW, desc, pdesc, pendD, phase, slot, ops, gh>>
  /\ UNCHANGED unitVars

\* PMwCASTarget::EmbedDescriptor: compare_exchange_strong(expected, desc_addr)
Embed_CAS(t) ==
  /\ phase = "run" /\ th[t].pc = "embed_cas"
  /\ LET tgt == desc[t].targets[th[t].i + 1]
     IN IF mem[tgt.addr] = th[t].word
          THEN /\ StoreWord(tgt.addr, DescAddr(t))
               /\ th' = [th EXCEPT ![t] =
                           IF th[t].i + 1 < th[t].n
                             THEN [@ EXCEPT !.pc = "embed_load", !.i = @ + 1,
                                            !.retry = 0, !.word = 0]
                             ELSE AfterEmbed(@, th[t].i + 1)]
               /\ gh' = [WroteInCall(t, tgt.addr) EXCEPT !.inst[t][tgt.addr] = tgt]
          ELSE /\ th' = [th EXCEPT ![t] = EmbedFailed(@, mem[tgt.addr])]
               /\ UNCHANGED <<mem, pm, pendW, gh>>
  /\ UNCHANGED <<desc, pdesc, pendD, phase, slot, ops>>
  /\ UNCHANGED unitVars

\* A faulty Undo that stores new_val_ instead of old_val_.
PMwCAS_Undo_StoreNew(t) ==
  /\ phase = "run" /\ th[t].pc = "undo"
  /\ LET tgt == desc[t].targets[th[t].i + 1]
     IN /\ StoreFlushWord(t, tgt.addr, tgt.new_val)
        /\ gh' = WroteInCall(t, tgt.addr)
  /\ th' = [th EXCEPT ![t].i = @ + 1,
                      ![t].pc = IF th[t].i + 1 < th[t].embedded THEN "undo" ELSE "finish"]
  /\ UNCHANGED <<desc, pdesc, pendD, phase, slot, ops>>
  /\ UNCHANGED unitVars

\* A faulty Undo that leaves the word as it is.
PMwCAS_Undo_Skip(t) ==
  /\ phase = "run" /\ th[t].pc = "undo"
  /\ th' = [th EXCEPT ![t].i = @ + 1,
                      ![t].pc = IF th[t].i + 1 < th[t].embedded THEN "undo" ELSE "finish"]
  /\ UNCHANGED <<mem, pm, pendW, desc, pdesc, pendD, phase, slot, ops, gh>>
  /\ UNCHANGED unitVars

\* PMwCASTarget::Undo of targets_[i]: store old_val_, flush the word.
PMwCAS_Undo(t) ==
  /\ phase = "run" /\ th[t].pc = "undo"
  /\ LET tgt == desc[t].targets[th[t].i + 1]
     IN /\ StoreFlushWord(t, tgt.addr, tgt.old_val)
        /\ gh' = WroteInCall(t, tgt.addr)
  /\ th' = [th EXCEPT ![t].i = @ + 1,
                      ![t].pc = IF th[t].i + 1 < th[t].embedded THEN "undo" ELSE "finish"]
  /\ UNCHANGED <<desc, pdesc, pendD, phase, slot, ops>>
  /\ UNCHANGED unitVars

\* Every target is flushed (PMwCASTarget::Flush), status_ = kSucceeded, the
\* header is flushed.
PMwCAS_Commit(t) ==
  /\ phase = "run" /\ th[t].pc = "commit"
  /\ pendW' = [pendW EXCEPT ![t] =
                 [w \in Words |-> IF w \in TargetWords(desc[t], th[t].n) THEN {mem[w]}
                                                                        ELSE @[w]]]
  /\ LET d == [desc[t] EXCEPT !.status = kSucceeded]
     IN /\ desc' = [desc EXCEPT ![t] = d]
        /\ pdesc' = [pdesc EXCEPT ![t].hdr = Stored(@, Hdr(d))]
        /\ pendD' = [pendD EXCEPT ![t].hdr = {Hdr(d)}]
  /\ th' = [th EXCEPT ![t].pc = "commit_drain"]
  /\ UNCHANGED <<mem, pm, phase, slot, ops, gh>>
  /\ UNCHANGED unitVars

\* A faulty PMwCAS that starts its redo loop without the pmem_drain() after
\* the flush of the header.
PMwCAS_CommitDrain_NoDrain(t) ==
  /\ phase = "run" /\ th[t].pc = "commit_drain"
  /\ th' = [th EXCEPT ![t].pc = IF th[t].n > 0 THEN "redo" ELSE "finish"]
  /\ UNCHANGED <<mem, pm, pendW, desc, pdesc, pendD, phase, slot, ops, gh>>
  /\ UNCHANGED unitVars

\* The pmem_drain() that follows the flush of the header.
PMwCAS_CommitDrain(t) ==
  /\ phase = "run" /\ th[t].pc = "commit_drain"
  /\ DrainWords(t, {})
  /\ DrainDesc(t)
  /\ th' = [th EXCEPT ![t].pc = IF th[t].n > 0 THEN "redo" ELSE "finish"]
  /\ UNCHANGED <<mem, desc, phase, slot, ops, gh>>
  /\ UNCHANGED unitVars

\* A faulty Redo that stores new_val_ and does not flush the word.
PMwCAS_Redo_NoFlush(t) ==
  /\ phase = "run" /\ th[t].pc = "redo"
  /\ LET tgt == desc[t].targets[th[t].i + 1]
     IN /\ StoreWord(tgt.addr, tgt.new_val)
        /\ gh' = [WroteInCall(t, tgt.addr) EXCEPT
                    !.hist[tgt.addr] = Append(@, gh.opid[t])]
  /\ th' = [th EXCEPT ![t].i = @ + 1,
                      ![t].pc = IF th[t].i + 1 < th[t].n THEN "redo" ELSE "finish"]
  /\ UNCHANGED <<desc, pdesc, pendD, phase, slot, ops>>
  /\ UNCHANGED unitVars

\* PMwCASTarget::Redo of targets_[i]: store new_val_, flush the word.
PMwCAS_Redo(t) ==
  /\ phase = "run" /\ th[t].pc = "redo"
  /\ LET tgt == desc[t].targets[th[t].i + 1]
     IN /\ StoreFlushWord(t, tgt.addr, tgt.new_val)
        /\ gh' = [WroteInCall(t, tgt.addr) EXCEPT
                    !.hist[tgt.addr] = Append(@, gh.opid[t])]
  /\ th' = [th EXCEPT ![t].i = @ + 1,
                      ![t].pc = IF th[t].i + 1 < th[t].n THEN "redo" ELSE "finish"]
  /\ UNCHANGED <<desc, pdesc, pendD, phase, slot, ops>>
  /\ UNCHANGED unitVars

\* A faulty end of PMwCAS that returns without resetting the descriptor.
PMwCAS_Finish_NoReset(t) ==
  /\ phase = "run" /\ th[t].pc = "finish"
  /\ DrainWords(t, {})
  /\ DrainDesc(t)
  /\ LET ret == IF th[t].embedded < th[t].n THEN "pmwcas_false" ELSE "pmwcas_true"
     IN /\ th' = [th EXCEPT ![t].pc = "idle", ![t].i = 0, ![t].ret = ret]
        /\ gh' = [gh EXCEPT !.last[t] = [ret |-> ret, embedded |-> th[t].embedded,
                                         n |-> th[t].n],
                            !.succ = IF ret = "pmwcas_true" THEN @ + 1 ELSE @]
  /\ UNCHANGED <<mem, desc, phase, slot, ops>>
  /\ UNCHANGED unitVars

\* The final pmem_drain(), the reset of the descriptor (status_ = kCompleted,
\* then target_count_ = 0: two stores that are not flushed) and the return.
PMwCAS_Finish(t) ==
  /\ phase = "run" /\ th[t].pc = "finish"
  /\ DrainWords(t, {})
  /\ LET d1 == [desc[t] EXCEPT !.status = kCompleted]
         d2 == [d1 EXCEPT !.target_count = 0]
     IN /\ desc' = [desc EXCEPT ![t] = d2]
        /\ pdesc' = [pdesc EXCEPT ![t] =
                       [hdr |-> Stored(Stored(Drained(@.hdr, pendD[t].hdr), Hdr(d1)), Hdr(d2)),
                        targets |-> [i \in TargetIdx |->
                                       Drained(@.targets[i], pendD[t].targets[i])]]]
        /\ pendD' = [pendD EXCEPT ![t] = NoPendD]
  /\ LET ret == IF th[t].embedded < th[t].n THEN "pmwcas_false" ELSE "pmwcas_true"
     IN /\ th' = [th EXCEPT ![t].pc = "idle", ![t].i = 0, ![t].ret = ret]
        /\ gh' = [gh EXCEPT !.last[t] = [ret |-> ret, embedded |-> th[t].embedded,
                                         n |-> th[t].n],
                            !.succ = IF ret = "pmwcas_true" THEN @ + 1 ELSE @]
  /\ UNCHANGED <<mem, phase, slot, ops>>
  /\ UNCHANGED unitVars

(***************************************************************************)
(* component::ResolveIntermediateState                                     *)
(***************************************************************************)

\* A faulty return to PCAS that reports a failure without handing the loaded
\* word back in `expected'.
Resolved_KeepExpected(l, word) ==
  IF l.caller = "pload"
    THEN [l EXCEPT !.pc = "idle", !.word = word, !.ret = "pload", !.spin = 0, !.orig = 0]
    ELSE IF word # l.expected
      THEN [l EXCEPT !.pc = "idle", !.word = l.expected, !.ret = "pcas_false",
                     !.spin = 0, !.orig = 0]
      ELSE [l EXCEPT !.pc = "pcas_cas", !.word = word, !.spin = 0, !.orig = 0]

\* ResolveIntermediateState returns with `word' in the caller's variable.
\* PLoad returns it; PCAS goes on with
\*   if (expected != orig_expected) return false;
\* and otherwise retries its CAS.
Resolved(l, word) ==
  IF l.caller = "pload"
    THEN [l EXCEPT !.pc = "idle", !.word = word, !.ret = "pload", !.spin = 0, !.orig = 0]
    ELSE IF word # l.expected
      THEN [l EXCEPT !.pc = "idle", !.word = word, !.ret = "pcas_false", !.spin = 0,
                     !.orig = 0]
      ELSE [l EXCEPT !.pc = "pcas_cas", !.word = word, !.spin = 0, !.orig = 0]

\* A faulty loop head that returns whatever word it holds.
ResolveLoop_GiveUp(l, word) ==
  IF l.caller = "pload"
    THEN [l EXCEPT !.pc = "idle", !.word = word, !.ret = "pload", !.spin = 0, !.orig = 0]
    ELSE [l EXCEPT !.pc = "idle", !.word = word, !.ret = "pcas_false", !.spin = 0,
                   !.orig = 0]

\* After the spinning loop: const auto orig_word = word; sleep_for(kBackOffTime)
AfterSpin(l, word) == [l EXCEPT !.pc = "rs_sleep", !.word = word, !.orig = word, !.spin = 0]

\* The head of the loop: while (word & kIsIntermediate)
ResolveLoop(l, word) ==
  IF ~IsIntermediate(word)
    THEN Resolved(l, word)
    ELSE IF kRetryNum > 0
      THEN [l EXCEPT !.pc = "rs_spin", !.word = word, !.spin = 0]
      ELSE AfterSpin(l, word)

\* for (i < kRetryNum) { word = load; if ((word & kIsIntermediate) == 0) return; }
Resolve_Spin(t) ==
  /\ phase = "run" /\ th[t].pc = "rs_spin"
  /\ LET word == mem[th[t].addr]
     IN th' = [th EXCEPT ![t] =
                 IF ~IsIntermediate(word) THEN Resolved(@, word)
                 ELSE IF th[t].spin + 1 < kRetryNum
                   THEN [@ EXCEPT !.word = word, !.spin = @ + 1]
                   ELSE AfterSpin(@, word)]
  /\ gh' = NoteRead(gh, th'[t])
  /\ UNCHANGED <<mem, pm, pendW, desc, pdesc, pendD, phase, slot, ops>>
  /\ UNCHANGED unitVars

\* word = load; if clean return;
\* if ((word & kPMwCASFlag) || word != orig_word) continue;
Resolve_Reload(t) ==
  /\ phase = "run" /\ th[t].pc = "rs_sleep"
  /\ LET word == mem[th[t].addr]
     IN th' = [th EXCEPT ![t] =
                 IF ~IsIntermediate(word) THEN Resolved(@, word)
                 ELSE IF HasFlag(word, kPMwCASFlag) \/ word # th[t].orig
                   THEN ResolveLoop(@, word)
                   ELSE [@ EXCEPT !.pc = "rs_persist", !.word = word]]
  /\ gh' = NoteRead(gh, th'[t])
  /\ UNCHANGED <<mem, pm, pendW, desc, pdesc, pendD, phase, slot, ops>>
  /\ UNCHANGED unitVars

\* A faulty resolver that goes on to its CAS without pmem_persist.
Resolve_Persist_NoDrain(t) ==
  /\ phase = "run" /\ th[t].pc = "rs_persist"
  /\ th' = [th EXCEPT ![t].pc = "rs_cas"]
  /\ UNCHANGED <<mem, pm, pendW, desc, pdesc, pendD, phase, slot, ops, gh>>
  /\ UNCHANGED unitVars

\* pmem_persist(word_addr, kWordSize)
Resolve_Persist(t) ==
  /\ phase = "run" /\ th[t].pc = "rs_persist"
  /\ DrainWords(t, {th[t].addr})
  /\ DrainDesc(t)
  /\ th' = [th EXCEPT ![t].pc = "rs_cas"]
  /\ UNCHANGED <<mem, desc, phase, slot, ops, gh>>
  /\ UNCHANGED unitVars

\* A faulty resolver that returns the cleared word without its CAS.
Resolve_CAS_NoStore(t) ==
  /\ phase = "run" /\ th[t].pc = "rs_cas"
  /\ th' = [th EXCEPT ![t] = Resolved(@, ClearFlag(th[t].word, kDirtyFlag))]
  /\ gh' = NoteRead(gh, th'[t])
  /\ UNCHANGED <<mem, pm, pendW, desc, pdesc, pendD, phase, slot, ops>>
  /\ UNCHANGED unitVars

\* if (compare_exchange_strong(word, word & ~kDirtyFlag))
\*   { word &= ~kDirtyFlag; return; }
Resolve_CAS(t) ==
  /\ phase = "run" /\ th[t].pc = "rs_cas"
  /\ LET w == th[t].addr
     IN IF mem[w] = th[t].word
          THEN /\ StoreWord(w, ClearFlag(th[t].word, kDirtyFlag))
               /\ th' = [th EXCEPT ![t] = Resolved(@, ClearFlag(th[t].word, kDirtyFlag))]
          ELSE /\ th' = [th EXCEPT ![t] = ResolveLoop(@, mem[w])]
               /\ UNCHANGED <<mem, pm, pendW>>
  /\ gh' = NoteRead(gh, th'[t])
  /\ UNCHANGED <<desc, pdesc, pendD, phase, slot, ops>>
  /\ UNCHANGED unitVars

(***************************************************************************)
(* PLoad                                                                   *)
(***************************************************************************)

\* auto word = word_addr->load(order);
\* component::ResolveIntermediateState(word_addr, word); return word;
PLoad(t, w) ==
  /\ phase = "run" /\ th[t].pc = "idle"
  /\ desc[t].target_count = 0
  /\ ops' = ops + 1
  /\ th' = [th EXCEPT ![t] =
              ResolveLoop([IdleThread EXCEPT !.addr = w, !.caller = "pload"], mem[w])]
  /\ gh' = NoteRead([gh EXCEPT !.quiet = FALSE], th'[t])
  /\ UNCHANGED <<mem, pm, pendW, desc, pdesc, pendD, phase, slot>>
  /\ UNCHANGED unitVars

(***************************************************************************)
(* PCAS<uint64_t>                                                          *)
(***************************************************************************)

\* A faulty first CAS that stores desired|dirty whatever the word holds.
PCAS_Try_NoCompare(t, l) ==
  LET w == l.addr
  IN /\ StoreWord(w, SetFlag(l.desired, kDirtyFlag))
     /\ th' = [th EXCEPT ![t] = [l EXCEPT !.pc = "pcas_persist"]]
     /\ gh' = [Wrote(t, w) EXCEPT !.last[t] = NoResult, !.wr[t] = {w}]

\* One round of
\*   while (!compare_exchange_weak(expected, dirty_v)) {
\*     if (expected & kDirtyFlag) ResolveIntermediateState(word_addr, expected);
\*     if (expected != orig_expected) return false; }
\* by a thread whose control state is l (l.word is `expected').  A spurious
\* failure of the weak CAS leaves every variable as it is.
PCAS_Try(t, l) ==
  LET w == l.addr
  IN IF mem[w] = l.word
       THEN /\ StoreWord(w, SetFlag(l.desired, kDirtyFlag))
            /\ th' = [th EXCEPT ![t] = [l EXCEPT !.pc = "pcas_persist"]]
            /\ gh' = [Wrote(t, w) EXCEPT !.last[t] = NoResult, !.wr[t] = {w}]
       ELSE /\ th' = [th EXCEPT ![t] =
                        IF HasFlag(mem[w], kDirtyFlag)
                          THEN ResolveLoop(l, mem[w])
                          ELSE Resolved(l, mem[w])]
            /\ gh' = [gh EXCEPT !.quiet = FALSE, !.last[t] = NoResult, !.wr[t] = {}]
            /\ UNCHANGED <<mem, pm, pendW>>

PCAS(t, w, e, d) ==
  /\ phase = "run" /\ th[t].pc = "idle"
  /\ desc[t].target_count = 0
  /\ ops' = ops + 1
  /\ PCAS_Try(t, [IdleThread EXCEPT !.addr = w, !.caller = "pcas", !.expected = e,
                                    !.word = e, !.desired = d])
  /\ UNCHANGED <<desc, pdesc, pendD, phase, slot>>
  /\ UNCHANGED unitVars

PCAS_Retry(t) ==
  /\ phase = "run" /\ th[t].pc = "pcas_cas"
  /\ PCAS_Try(t, th[t])
  /\ UNCHANGED <<desc, pdesc, pendD, phase, slot, ops>>
  /\ UNCHANGED unitVars

\* A faulty PCAS that goes on to its second CAS without pmem_persist.
PCAS_Persist_NoDrain(t) ==
  /\ phase = "run" /\ th[t].pc = "pcas_persist"
  /\ th' = [th EXCEPT ![t].pc = "pcas_clean"]
  /\ UNCHANGED <<mem, pm, pendW, desc, pdesc, pendD, phase, slot, ops, gh>>
  /\ UNCHANGED unitVars

\* pmem_persist(addr, kWordSize)
PCAS_Persist(t) ==
  /\ phase = "run" /\ th[t].pc = "pcas_persist"
  /\ DrainWords(t, {th[t].addr})
  /\ DrainDesc(t)
  /\ th' = [th EXCEPT ![t].pc = "pcas_clean"]
  /\ UNCHANGED <<mem, desc, phase, slot, ops, gh>>
  /\ UNCHANGED unitVars

\* A faulty PCAS that returns true without its second CAS.
PCAS_Clean_NoCAS(t) ==
  /\ phase = "run" /\ th[t].pc = "pcas_clean"
  /\ th' = [th EXCEPT ![t].pc = "idle", ![t].ret = "pcas_true"]
  /\ gh' = [gh EXCEPT !.psucc = @ + 1]
  /\ UNCHANGED <<mem, pm, pendW, desc, pdesc, pendD, phase, slot, ops>>
  /\ UNCHANGED unitVars

\* word_addr->compare_exchange_strong(dirty_v, desired); return true;
PCAS_Clean(t) ==
  /\ phase = "run" /\ th[t].pc = "pcas_clean"
  /\ LET w == th[t].addr
     IN IF mem[w] = SetFlag(th[t].desired, kDirtyFlag)
          THEN StoreWord(w, th[t].desired)
          ELSE UNCHANGED <<mem, pm, pendW>>
  /\ th' = [th EXCEPT ![t].pc = "idle", ![t].ret = "pcas_true"]
  /\ gh' = [gh EXCEPT !.psucc = @ + 1]
  /\ UNCHANGED <<desc, pdesc, pendD, phase, slot, ops>>
  /\ UNCHANGED unitVars

(***************************************************************************)
(* Crash and recovery (DescriptorPool constructor)                         *)
(***************************************************************************)

\* The constructor runs on one thread while no other thread exists; its
\* pending flushes of target words are kept in the entry of this thread ID.
Opener == 0

\* A faulty Recover that rolls every embedded descriptor back, whatever the
\* status of the descriptor.
Recover_RollBackOnly(word, tgt, succeeded, desc_addr) ==
  IF HasFlag(word, kDirtyFlag) THEN ClearFlag(word, kDirtyFlag)
  ELSE IF word = desc_addr THEN tgt.old_val
  ELSE word

\* A faulty Recover that looks for the locator before it looks at the dirty
\* flag.
Recover_LocatorFirst(word, tgt, succeeded, desc_addr) ==
  IF ClearFlag(word, kDirtyFlag) = desc_addr
    THEN (IF succeeded THEN tgt.new_val ELSE tgt.old_val)
  ELSE IF HasFlag(word, kDirtyFlag) THEN ClearFlag(word, kDirtyFlag)
  ELSE word

\* A faulty Recover that does not compare the word with the locator of the
\* descriptor: every target that is not dirty is rolled forward or back.
Recover_NoCompare(word, tgt, succeeded, desc_addr) ==
  IF HasFlag(word, kDirtyFlag) THEN ClearFlag(word, kDirtyFlag)
  ELSE IF succeeded THEN tgt.new_val ELSE tgt.old_val

\* PMwCASTarget::Recover: the value Recover stores into the target word,
\* given the value it has loaded.
Recover(word, tgt, succeeded, desc_addr) ==
  IF HasFlag(word, kDirtyFlag) THEN ClearFlag(word, kDirtyFlag)
  ELSE IF word = desc_addr THEN (IF succeeded THEN tgt.new_val ELSE tgt.old_val)
  ELSE word

\* Recover dereferences addr_; a target whose line never reached the medium
\* holds no address.
NullTarget(tgt) == tgt.addr \notin Words

\* PMwCASDescriptor::Initialize, the loop
\*   for (i < target_count_) targets_[i].Recover(succeeded, desc_addr_);
\* from target i on.  st holds the target words (mem), the contents the
\* medium may hold for them (pm), the pending flushes of the constructor
\* (pend), and whether the loop has dereferenced a null address (fault).
RECURSIVE RecoverTargets(_, _, _, _)
RecoverTargets(st, d, desc_addr, i) ==
  IF i > d.target_count \/ st.fault THEN st
  ELSE LET tgt == d.targets[i]
       IN IF NullTarget(tgt) THEN [st EXCEPT !.fault = TRUE]
          ELSE LET word == st.mem[tgt.addr]
                   v == Recover(word, tgt, d.status = kSucceeded, desc_addr)
               IN RecoverTargets(IF v = word THEN st
                                 ELSE [st EXCEPT !.mem[tgt.addr] = v,
                                                 !.pm[tgt.addr] = Stored(@, v),
                                                 !.pend[tgt.addr] = {v}],
                                 d, desc_addr, i + 1)

\* A faulty Initialize that recovers the targets and leaves status_ and
\* target_count_ as they are.
Initialize_NoReset ==
  /\ phase = "open" /\ slot < kMaxThreadNum
  /\ LET st0 == [mem |-> mem, pm |-> pm, pend |-> pendW[Opener], fault |-> FALSE]
         st == IF desc[slot].status # kCompleted
                 THEN RecoverTargets(st0, desc[slot], DescAddr(slot), 1)
                 ELSE st0
     IN /\ mem' = st.mem
        /\ pm' = st.pm
        /\ pendW' = [pendW EXCEPT ![Opener] = st.pend]
        /\ IF st.fault
             THEN /\ phase' = "fault"
                  /\ UNCHANGED slot
             ELSE /\ slot' = slot + 1
                  /\ phase' = phase
  /\ UNCHANGED <<desc, pdesc, pendD, th, ops, gh>>
  /\ UNCHANGED unitVars

\* PMwCASDescriptor::Initialize of desc_pool_[slot], called by the
\* DescriptorPool constructor:
\*   if (status_ != kCompleted) { recover every target }
\*   status_ = kCompleted; target_count_ = 0; pmem_flush(this, ...);
Initialize ==
  /\ phase = "open" /\ slot < kMaxThreadNum
  /\ LET st0 == [mem |-> mem, pm |-> pm, pend |-> pendW[Opener], fault |-> FALSE]
         st == IF desc[slot].status # kCompleted
                 THEN RecoverTargets(st0, desc[slot], DescAddr(slot), 1)
                 ELSE st0
         d1 == [desc[slot] EXCEPT !.status = kCompleted]
         d2 == [d1 EXCEPT !.target_count = 0]
     IN /\ mem' = st.mem
        /\ pm' = st.pm
        /\ pendW' = [pendW EXCEPT ![Opener] = st.pend]
        /\ IF st.fault
             THEN /\ phase' = "fault"
                  /\ UNCHANGED <<desc, pdesc, pendD, slot>>
             ELSE /\ desc' = [desc EXCEPT ![slot] = d2]
                  /\ pdesc' = [pdesc EXCEPT ![slot].hdr = Stored(Stored(@, Hdr(d1)), Hdr(d2))]
                  /\ pendD' = [pendD EXCEPT ![slot].hdr = {Hdr(d2)}]
                  /\ slot' = slot + 1
                  /\ phase' = phase
  /\ UNCHANGED <<th, ops, gh>>
  /\ UNCHANGED unitVars

\* DescriptorPool::DescriptorPool: the pmem_drain() after the loop over the
\* descriptors; the constructor returns.
OpenDrain ==
  /\ phase = "open" /\ slot = kMaxThreadNum
  /\ DrainWords(Opener, {})
  /\ pdesc' = [t \in Threads |->
                 [hdr |-> Drained(pdesc[t].hdr, pendD[t].hdr),
                  targets |-> [i \in TargetIdx |->
                                 Drained(pdesc[t].targets[i], pendD[t].targets[i])]]]
  /\ pendD' = [t \in Threads |-> NoPendD]
  /\ phase' = "run"
  /\ gh' = [gh EXCEPT !.quiet = TRUE]
  /\ UNCHANGED <<mem, desc, th, slot, ops>>
  /\ UNCHANGED unitVars

\* The pool is closed, or the process has died in the constructor, and the
\* pool is opened once more: the constructor runs on what the first run has
\* left.  The history keeps the descriptors and words the first run ended with.
Reopen ==
  /\ phase \in {"run", "fault"} /\ ~gh.reopened
  /\ \A t \in Threads : th[t].pc = "idle"
  /\ phase' = "open"
  /\ slot' = 0
  /\ pendW' = [t \in Threads |-> [w \in Words |-> {}]]
  /\ pendD' = [t \in Threads |-> NoPendD]
  /\ gh' = [gh EXCEPT !.reopened = TRUE,
                      !.snap = [desc |-> desc, mem |-> mem, phase |-> phase]]
  /\ UNCHANGED <<mem, pm, desc, pdesc, th, ops>>
  /\ UNCHANGED unitVars

\* The descriptors the medium may hold for slot t.
DescImages(t) ==
  {[status |-> h.status, target_count |-> h.target_count, targets |-> g] :
     h \in pdesc[t].hdr, g \in Pick(pdesc[t].targets, TargetIdx)}

\* What is recorded about thread t when the process crashes; pd is the
\* descriptor the medium holds for t.
CrashInfo(t, pd) ==
  IF InPMwCAS(t) /\ gh.fresh[t]
    THEN [inop |-> TRUE, n |-> th[t].n,
          durable |-> pd.status = kSucceeded /\ th[t].pc \in {"commit_drain", "redo", "finish"},
          committed |-> th[t].pc = "redo" \/ (th[t].pc = "finish" /\ th[t].embedded = th[t].n),
          targets |-> desc[t].targets]
    ELSE NoCrashInfo

\* The process is killed (power failure): every line keeps one of the
\* contents the medium may hold, all threads and pending flushes are gone,
\* and the pool is opened again.
Crash ==
  /\ phase \in {"run", "open"}
  /\ gh.crashes < MaxCrash
  /\ \E pw \in Pick(pm, Words) :
       \E pd \in Pick([t \in Threads |-> DescImages(t)], Threads) :
         /\ mem' = pw
         /\ pm' = [w \in Words |-> {pw[w]}]
         /\ desc' = pd
         /\ pdesc' = [t \in Threads |-> Persisted(pd[t])]
         /\ gh' = [gh EXCEPT !.crashes = @ + 1,
                             !.quiet = FALSE,
                             !.fresh = [t \in Threads |-> FALSE],
                             !.wr = [t \in Threads |-> {}],
                             !.last = [t \in Threads |-> NoResult],
                             !.cr = IF phase = "run"
                                      THEN [t \in Threads |-> CrashInfo(t, pd[t])]
                                      ELSE @,
                             !.found = IF phase = "run"
                                         THEN [desc |-> pd, mem |-> pw]
                                         ELSE @,
                             !.outside = IF phase = "run"
                                           THEN {t \in Threads : ~InPMwCAS(t)}
                                           ELSE @]
  /\ pendW' = [t \in Threads |-> [w \in Words |-> {}]]
  /\ pendD' = [t \in Threads |-> NoPendD]
  /\ th' = [t \in Threads |-> IdleThread]
  /\ phase' = "open"
  /\ slot' = 0
  /\ UNCHANGED ops
  /\ UNCHANGED unitVars

(***************************************************************************)
(* DescriptorPool::Get                                                     *)
(***************************************************************************)

\* The thread IDs a call of IDManager::GetThreadID by OS thread o can return:
\* the ID the thread holds already, or else any ID no live thread holds.  The
\* call does not return while there is none.
GetThreadID(o) ==
  IF tls[o].id # NoId
    THEN {tls[o].id}
    ELSE {i \in Threads : \A q \in Workers : tls[q].id # i}

\* &(desc_pool_[i]), as an offset from desc_pool_.
DescPointer(i) == i * kDescSize

\* A faulty Get that hands out the first descriptor of the pool.
Get_FirstSlot(o) ==
  /\ phase = "run" /\ tls[o].calls < MaxGets
  /\ \E i \in GetThreadID(o) :
       tls' = [tls EXCEPT ![o] = [id |-> i, got |-> @.got \cup {DescPointer(0)},
                                  calls |-> @.calls + 1]]
  /\ UNCHANGED <<mem, pm, pendW, desc, pdesc, pendD, th, phase, slot, ops, gh, wd, rsv, pool>>

\* return &(desc_pool_[::dbgroup::thread::IDManager::GetThreadID()]);
Get(o) ==
  /\ phase = "run" /\ tls[o].calls < MaxGets
  /\ \E i \in GetThreadID(o) :
       tls' = [tls EXCEPT ![o] = [id |-> i, got |-> @.got \cup {DescPointer(i)},
                                  calls |-> @.calls + 1]]
  /\ UNCHANGED <<mem, pm, pendW, desc, pdesc, pendD, th, phase, slot, ops, gh, wd, rsv, pool>>

\* An OS thread that holds a thread ID ends between two operations; the ID
\* manager takes the ID back.  Another thread starts under the same name.
ThreadExit(o) ==
  /\ tls[o].id # NoId
  /\ th[tls[o].id].pc = "idle"
  /\ tls' = [tls EXCEPT ![o] = DeadWorker]
  /\ UNCHANGED <<mem, pm, pendW, desc, pdesc, pendD, th, phase, slot, ops, gh, wd, rsv, pool>>

(***************************************************************************)
(* component::PMwCASWord                                                   *)
(***************************************************************************)

\* A faulty constructor that drops is_pmwcas_descriptor.
PMwCASWord_NoFlag(target_data, is_pmwcas_descriptor) == target_data

\* memcpy(&word_, &target_data, kWordSize);
\* word_ |= static_cast<uint64_t>(is_pmwcas_descriptor) << kPMwCASFlagPos;
PMwCASWord(target_data, is_pmwcas_descriptor) ==
  IF is_pmwcas_descriptor THEN SetFlag(target_data, kWordPMwCASFlag) ELSE target_data

\* operator==: return word_ == obj.word_;
WordEq(word, obj) == word = obj

\* PMwCASWord::IsIntermediate
WordIsIntermediate(word) ==
  IF kUseDirtyFlag
    THEN HasFlag(word, kWordPMwCASFlag) \/ HasFlag(word, kWordDirtyFlag)
    ELSE HasFlag(word, kWordPMwCASFlag)

\* PMwCASWord::IsNotPersisted
IsNotPersisted(word) == IF kUseDirtyFlag THEN HasFlag(word, kWordDirtyFlag) ELSE FALSE

\* GetTargetData<uint64_t>: return word_;
GetTargetData(word) == word

\* word_ |= kDirtyFlag;
SetDirtyFlag(word) == SetFlag(word, kWordDirtyFlag)

\* A faulty ClearDirtyFlag that clears both reserved bits.
ClearDirtyFlag_BothFlags(word) ==
  ClearFlag(ClearFlag(word, kWordDirtyFlag), kWordPMwCASFlag)

\* word_ &= ~kDirtyFlag;
ClearDirtyFlag(word) == ClearFlag(word, kWordDirtyFlag)

\* Two words are constructed from the data and the flags drawn at the start.
Construct ==
  /\ wd.step = "data"
  /\ wd' = [wd EXCEPT !.step = "built",
                      !.a = PMwCASWord(wd.va, wd.fa),
                      !.b = PMwCASWord(wd.vb, wd.fb)]
  /\ UNCHANGED <<mem, pm, pendW, desc, pdesc, pendD, th, phase, slot, ops, gh, tls, rsv, pool>>

\* auto dirty_word = word; dirty_word.SetDirtyFlag();
CallSetDirtyFlag ==
  /\ wd.step \in {"built", "cleared"}
  /\ wd' = [wd EXCEPT !.step = "dirty", !.orig = wd.a, !.a = SetDirtyFlag(wd.a)]
  /\ UNCHANGED <<mem, pm, pendW, desc, pdesc, pendD, th, phase, slot, ops, gh, tls, rsv, pool>>

\* auto persisted_word = dirty_word; persisted_word.ClearDirtyFlag();
CallClearDirtyFlag ==
  /\ wd.step = "dirty"
  /\ wd' = [wd EXCEPT !.step = "cleared", !.mid = wd.a, !.a = ClearDirtyFlag(wd.a)]
  /\ UNCHANGED <<mem, pm, pendW, desc, pdesc, pendD, th, phase, slot, ops, gh, tls, rsv, pool>>

(***************************************************************************)
(* The state machine                                                       *)
(***************************************************************************)

\* The history of a pool on which nothing has happened yet.
NoHistory ==
  [crashes |-> 0, quiet |-> TRUE,
   fresh |-> [t \in Threads |-> FALSE],
   writer |-> [w \in Words |-> -1],
   wr |-> [t \in Threads |-> {}],
   opid |-> [t \in Threads |-> 0],
   hist |-> [w \in Words |-> <<>>],
   last |-> [t \in Threads |-> NoResult],
   succ |-> 0,
   psucc |-> 0,
   past |-> [t \in Threads |-> NoTarget],
   inst |-> [t \in Threads |-> [w \in Words |-> NoTarget]],
   read |-> [w \in Words |-> 0],
   reopened |-> FALSE,
   outside |-> {},
   found |-> [desc |-> [t \in Threads |-> EmptyDesc], mem |-> [w \in Words |-> 0]],
   snap |-> [desc |-> [t \in Threads |-> EmptyDesc],
             mem |-> [w \in Words |-> 0], phase |-> "run"],
   cr |-> [t \in Threads |-> NoCrashInfo]]

\* A fresh pool after the DescriptorPool constructor has returned.
FreshPool ==
  /\ mem = [w \in Words |-> 0]
  /\ pm = [w \in Words |-> {0}]
  /\ pendW = [t \in Threads |-> [w \in Words |-> {}]]
  /\ desc = [t \in Threads |-> EmptyDesc]
  /\ pdesc = [t \in Threads |-> Persisted(EmptyDesc)]
  /\ pendD = [t \in Threads |-> NoPendD]
  /\ th = [t \in Threads |-> IdleThread]
  /\ phase = "run"
  /\ slot = kMaxThreadNum
  /\ ops = 0
  /\ gh = NoHistory

\* A fresh pool, no OS thread holding a thread ID yet.
Init ==
  /\ FreshPool
  /\ tls = [o \in Workers |-> DeadWorker]
  /\ rsv = NoReservation
  /\ pool = NoPool
  /\ wd = NoWords

\* The words a thread may still register in its descriptor.
FreeWords(t) == Words \ TargetWords(desc[t], desc[t].target_count)

\* Add with any old and new value.
AddStep(t) ==
  /\ phase = "run"
  /\ CanStart(t, MaxOps)
  /\ \E w \in FreeWords(t) : \E o \in Values : \E n \in Values \ {o} : Add(t, w, o, n)

\* Add with the value the caller has just read as the old value.
AddReadStep(t) ==
  /\ CanStart(t, MaxOps)
  /\ \E w \in FreeWords(t) :
       /\ ~IsIntermediate(mem[w])
       /\ \E n \in Values \ {mem[w]} : Add(t, w, mem[w], n)

\* The steps of a PMwCAS call after its first one.
PMwCASRun(t) ==
  \/ PMwCAS_PrepareDrain(t)
  \/ Embed_Load(t) \/ Embed_CAS(t)
  \/ PMwCAS_Undo(t)
  \/ PMwCAS_Commit(t) \/ PMwCAS_CommitDrain(t)
  \/ PMwCAS_Redo(t)
  \/ PMwCAS_Finish(t)

PMwCASStep(t) ==
  \/ CanStart(t, MaxOps) /\ PMwCAS_Prepare(t)
  \/ PMwCASRun(t)

\* The workload of PMwCASRandomly: the thread reads a word it has not
\* registered yet (Read returns once the word is not intermediate) and
\* registers it with the read value v as old and v + 1 as new.
ReadAndAdd(t) ==
  /\ CanStart(t, MaxTries)
  /\ \E w \in FreeWords(t) :
       /\ ~IsIntermediate(mem[w])
       /\ Add(t, w, mem[w], mem[w] + 1)

\* The workload of PMwCASRandomly: PMwCAS is called once kPMwCASCapacity
\* words are registered.
CallPMwCAS(t) ==
  /\ desc[t].target_count = kPMwCASCapacity
  /\ PMwCAS_Prepare(t)

ResolveStep(t) ==
  \/ Resolve_Spin(t) \/ Resolve_Reload(t) \/ Resolve_Persist(t) \/ Resolve_CAS(t)

PCASStep(t) ==
  \/ ops < MaxOps
     /\ \E w \in Words : \E e \in Values : \E d \in Values \ {e} : PCAS(t, w, e, d)
  \/ PCAS_Retry(t) \/ PCAS_Persist(t) \/ PCAS_Clean(t)

PLoadStep(t) == ops < MaxOps /\ \E w \in Words : PLoad(t, w)

OpenStep == Initialize \/ OpenDrain

\* Concurrent operations of all kinds, without crashes.
Next ==
  \E t \in Threads :
    AddStep(t) \/ PMwCASStep(t) \/ ResolveStep(t) \/ PCASStep(t) \/ PLoadStep(t)

Spec == Init /\ [][Next]_vars

\* The thread whose progress is examined while the other threads may be
\* suspended.
Reader == kMaxThreadNum - 1

\* Concurrent operations in which the reader, once inside
\* ResolveIntermediateState, keeps being scheduled (its loop has no blocking
\* call, sleep_for returns); any other thread may stop at any point.
SpecSuspend == Init /\ [][Next]_vars /\ WF_vars(ResolveStep(Reader))

\* The thread whose PMwCAS calls are examined while the other threads may be
\* suspended.
Caller == 0

\* Concurrent operations in which the caller, once inside PMwCAS, keeps being
\* scheduled; any other thread may stop at any point, also for ever.
SpecCaller == Init /\ [][Next]_vars /\ WF_vars(PMwCASRun(Caller))

\* The thread that stops inside PCAS.
Stalled == kMaxThreadNum - 1

\* PCAS of a thread that stops between its pmem_persist and its second CAS.
StalledPCAS(u) ==
  \/ ops < MaxOps
     /\ \E w \in Words : \E e \in Values : \E d \in Values \ {e} : PCAS(u, w, e, d)
  \/ PCAS_Persist(u)

\* The caller runs PMwCAS; the only other thread runs PCAS and stops before
\* its second CAS, so that once a word is dirty nobody but the caller takes a
\* step.
NextStalled == AddStep(Caller) \/ PMwCASStep(Caller) \/ StalledPCAS(Stalled)

SpecStalled == Init /\ [][NextStalled]_vars

\* A workload in which every write increments: a thread loads a word with
\* PLoad; or it calls PCAS(word, v, v + 1) for the value v the word holds
\* (with the dirty flag or without); or it registers every word with
\* the value v it reads and v + 1, and calls PMwCAS.  The values of a word
\* never repeat.
DurLoad(t) == gh.crashes = 0 /\ ops < MaxDur /\ \E w \in Words : PLoad(t, w)

DurPCAS(t) ==
  /\ gh.crashes = 0 /\ ops < MaxDur
  /\ \E w \in Words :
       /\ ~HasFlag(mem[w], kPMwCASFlag)
       /\ LET v == ClearFlag(mem[w], kDirtyFlag) IN PCAS(t, w, v, v + 1)

DurAdd(t) ==
  /\ gh.crashes = 0 /\ CanStart(t, MaxDur)
  /\ \E w \in FreeWords(t) :
       /\ ~IsIntermediate(mem[w])
       /\ Add(t, w, mem[w], mem[w] + 1)

\* The process is killed once.
CrashOnce == gh.crashes = 0 /\ Crash

\* Loads, PCAS and PMwCAS of the incrementing workload, one crash at any
\* moment, and the recovery.
NextDur ==
  \/ \E t \in Threads :
       \/ DurLoad(t) \/ DurPCAS(t) \/ DurAdd(t) \/ CallPMwCAS(t)
       \/ PMwCASRun(t) \/ ResolveStep(t)
       \/ PCAS_Retry(t) \/ PCAS_Persist(t) \/ PCAS_Clean(t)
  \/ CrashOnce
  \/ OpenStep

SpecDur == Init /\ [][NextDur]_vars

\* A faulty workload that registers its words in any order (no std::sort).
OrderedAdd_Unsorted(t) ==
  /\ \A u \in Threads : th[u] = IdleThread
  /\ ops < kMaxThreadNum \/ desc[t].target_count > 0
  /\ \E w \in FreeWords(t) : Add(t, w, mem[w], mem[w] + 1)

\* PMwCASRandomly with std::sort(targets): a thread registers words in
\* ascending order of their addresses, each with the value the word holds as
\* old value, while no call has started, so that every call starts with all
\* its targets equal to their old values.
OrderedAdd(t) ==
  /\ \A u \in Threads : th[u] = IdleThread
  /\ ops < kMaxThreadNum \/ desc[t].target_count > 0
  /\ \E w \in FreeWords(t) :
       /\ \A i \in 1 .. desc[t].target_count : desc[t].targets[i].addr < w
       /\ Add(t, w, mem[w], mem[w] + 1)

\* desc.PMwCAS() on a descriptor with at least one target.
OrderedCall(t) == desc[t].target_count > 0 /\ PMwCAS_Prepare(t)

\* PMwCAS calls, one per thread, on targets listed in address order and
\* nothing else that writes.
NextOrdered == \E t \in Threads : OrderedAdd(t) \/ OrderedCall(t) \/ PMwCASRun(t)

\* Every thread inside PMwCAS keeps being scheduled.
SpecOrdered ==
  Init /\ [][NextOrdered]_vars /\ \A t \in Threads : WF_vars(PMwCASRun(t))

\* The thread that calls PCAS and takes no step after the pmem_persist of the
\* call: its second CAS never happens.
Stopped == 0

\* PCAS calls that stop before their second CAS, PLoad calls of the reader,
\* crashes and the re-opening of the pool.  A word with the dirty flag alone
\* is in every state the word of a PCAS that has not completed.
NextLeft ==
  \/ StalledPCAS(Stopped)
  \/ PLoadStep(Reader) \/ ResolveStep(Reader)
  \/ Crash
  \/ OpenStep

\* The reader, once inside ResolveIntermediateState, keeps being scheduled.
SpecLeft == Init /\ [][NextLeft]_vars /\ WF_vars(ResolveStep(Reader))

\* Add of a word the descriptor holds already.
AddTwice(t) ==
  /\ phase = "run"
  /\ CanStart(t, MaxOps)
  /\ \E w \in TargetWords(desc[t], desc[t].target_count) :
       \E o \in Values : \E n \in Values \ {o} : Add(t, w, o, n)

\* Concurrent operations of all kinds by callers that may register a word
\* twice.
NextTwice == Next \/ \E t \in Threads : AddTwice(t)

SpecTwice == Init /\ [][NextTwice]_vars

\* PMwCAS operations, crashes and recovery.
NextCrash ==
  \/ \E t \in Threads : AddReadStep(t) \/ PMwCASStep(t)
  \/ OpenStep
  \/ Crash

SpecCrash == Init /\ [][NextCrash]_vars

\* The increment workload of the test.
NextInc == \E t \in Threads : ReadAndAdd(t) \/ CallPMwCAS(t) \/ PMwCASRun(t)

SpecInc == Init /\ [][NextInc]_vars

\* The word all threads of PCASRandomly increment (target_).
IncWord == 1

\* The workload of PCASRandomly: auto cur_val = PLoad(target_), at the start
\* of an iteration of the for loop.
IncLoad(t) ==
  /\ th[t].ret \in {"none", "pcas_true"}
  /\ ops < MaxTries
  /\ PLoad(t, IncWord)

\* The workload of PCASRandomly: PCAS(target_, cur_val, cur_val + 1), with
\* cur_val as PLoad or the failed PCAS before has left it.
IncPCAS(t) ==
  /\ th[t].ret \in {"pload", "pcas_false"}
  /\ PCAS(t, IncWord, th[t].word, th[t].word + 1)

\* The increment workload of the PCAS test.  The values of the word only
\* grow, so no PCAS finds the expected value again after a failed CAS and
\* PCAS_Retry has no part in it (C13_NoLostIncrement checks that no thread
\* waits for it).
NextPInc ==
  \E t \in Threads :
    IncLoad(t) \/ IncPCAS(t) \/ PCAS_Persist(t) \/ PCAS_Clean(t) \/ ResolveStep(t)

SpecPInc == Init /\ [][NextPInc]_vars

\* Add on a full descriptor, with any arguments.
AddFullStep(t) ==
  \E w \in Words : \E o \in Values : \E n \in Values \ {o} : Add_Full(t, w, o, n)

\* AddPMwCASTarget with any arguments.
AddTargetStep(t) ==
  /\ CanStart(t, MaxOps)
  /\ \E w \in Words : \E o \in Values : \E n \in Values \ {o} :
       AddPMwCASTarget(t, w, o, n)

\* Threads that register targets without regard to the capacity, and call
\* PMwCAS.
NextAdd ==
  \E t \in Threads :
    AddStep(t) \/ AddFullStep(t) \/ AddTargetStep(t) \/ PMwCASStep(t)

SpecAdd == Init /\ [][NextAdd]_vars

\* The contents a target word of an existing pool may have: a value or a
\* descriptor locator, with or without the dirty flag.
WordContents ==
  LET clean == Values \cup {DescAddr(t) : t \in Threads}
  IN clean \cup {SetFlag(v, kDirtyFlag) : v \in clean}

\* The targets a descriptor of an existing pool may hold: registered by Add,
\* or never written.
TargetStates ==
  {[addr |-> w, old_val |-> o, new_val |-> n] : w \in Words, o \in Values, n \in Values}
    \cup {NoTarget}

\* The descriptors an existing pool may hold: any status, any number of
\* targets.
DescStates ==
  {[status |-> s, target_count |-> c,
    targets |-> [i \in TargetIdx |-> IF i <= c THEN g[i] ELSE NoTarget]] :
     s \in {kCompleted, kFailed, kSucceeded}, c \in 0 .. kPMwCASCapacity,
     g \in [TargetIdx -> TargetStates]}

\* The DescriptorPool constructor has opened an existing pool whose first
\* descriptor and whose words are in any state.
InitExisting ==
  /\ mem \in [Words -> WordContents]
  /\ pm = [w \in Words |-> {mem[w]}]
  /\ pendW = [t \in Threads |-> [w \in Words |-> {}]]
  /\ \E d \in DescStates : desc = [t \in Threads |-> IF t = 0 THEN d ELSE EmptyDesc]
  /\ pdesc = [t \in Threads |-> Persisted(desc[t])]
  /\ pendD = [t \in Threads |-> NoPendD]
  /\ th = [t \in Threads |-> IdleThread]
  /\ phase = "open"
  /\ slot = 0
  /\ ops = 0
  /\ gh = [NoHistory EXCEPT !.found = [desc |-> desc, mem |-> mem]]
  /\ tls = [o \in Workers |-> DeadWorker]
  /\ rsv = NoReservation
  /\ pool = NoPool
  /\ wd = NoWords

\* The constructor runs, and runs once more on its own result.
NextInit == OpenStep \/ Reopen

SpecInit == InitExisting /\ [][NextInit]_vars

\* Every content of a word: the data a PMwCASWord can be constructed from.
WordData == 0 .. (2 * kWordPMwCASFlag - 1)

\* The data and flags of two words are given; no word is constructed yet.
InitWord ==
  /\ FreshPool
  /\ tls = [o \in Workers |-> DeadWorker]
  /\ rsv = NoReservation
  /\ pool = NoPool
  /\ \E va \in WordData : \E vb \in WordData : \E fa \in BOOLEAN : \E fb \in BOOLEAN :
       wd = [NoWords EXCEPT !.step = "data", !.va = va, !.fa = fa, !.vb = vb, !.fb = fb]

\* The operations of VerifyConstructor and VerifyEQ on the two words.
NextWord == Construct \/ CallSetDirtyFlag \/ CallClearDirtyFlag

SpecWord == InitWord /\ [][NextWord]_vars

\* An OS thread registers a target in the descriptor Get has returned to it.
UseDescriptor(o) ==
  /\ tls[o].id # NoId
  /\ AddStep(tls[o].id)

(***************************************************************************)
(* DescriptorPool constructor: the pointer to the descriptors              *)
(***************************************************************************)

\* a & b on addresses.
RECURSIVE BitAnd(_, _)
BitAnd(a, b) ==
  IF a = 0 \/ b = 0 THEN 0
  ELSE (a % 2) * (b % 2) + 2 * BitAnd(a \div 2, b \div 2)

\* ~a on addresses.
BitNot(a) == AddrSpace - 1 - a

\* constexpr uintptr_t kMask = kPMEMLineSize - 1;
kMask == kPMEMLineSize - 1

\* A faulty computation that moves every address to the next line.
AlignedRoot_Always(addr) == (BitAnd(addr, BitNot(kMask)) + kPMEMLineSize) % AddrSpace

\* if ((addr & kMask) > 0) addr = (addr & ~kMask) + kPMEMLineSize;
AlignedRoot(addr) ==
  IF BitAnd(addr, kMask) > 0
    THEN (BitAnd(addr, BitNot(kMask)) + kPMEMLineSize) % AddrSpace
    ELSE addr

\* pmemobj_root has returned an object of kDescPoolSize bytes at any address.
InitRoot ==
  /\ FreshPool
  /\ tls = [o \in Workers |-> DeadWorker]
  /\ wd = NoWords
  /\ rsv = NoReservation
  /\ \E r \in 0 .. MaxRoot : pool = [step |-> "root", root |-> r, desc_pool |-> 0]

\* desc_pool_ = reinterpret_cast<PMwCASDescriptor *>(addr);
SetDescPool ==
  /\ pool.step = "root"
  /\ pool' = [pool EXCEPT !.step = "ready", !.desc_pool = AlignedRoot(pool.root)]
  /\ UNCHANGED <<mem, pm, pendW, desc, pdesc, pendD, th, phase, slot, ops, gh, tls, wd, rsv>>

SpecRoot == InitRoot /\ [][SetDescPool]_vars

(***************************************************************************)
(* DescriptorPool::Get with reservations (include/pmwcas)                  *)
(***************************************************************************)

\* The rest of the model is left alone by the reservation-based pool.
OnlyReservation ==
  UNCHANGED <<mem, pm, pendW, desc, pdesc, pendD, th, phase, slot, ops, gh, tls, wd, pool>>

\* The position Get inspects after position i: the for loop goes on, and
\* after the last position the while loop starts it again (ptr is null).
NextPos(i) == (i + 1) % kDescriptorPoolSize

\* Get returns ptr->GetHoldDescriptor() to OS thread o, which owns position i.
Hold(h, i) ==
  [h EXCEPT !.pc = "out", !.i = 0, !.ptr = i, !.got = @ \cup {i}, !.calls = @ + 1]

\* Get is called: while (!ptr) is skipped when the thread owns an
\* ElementHolder already; otherwise the for loop starts at position 0.
RGet_Call(o) ==
  /\ rsv.holder[o].pc = "out" /\ rsv.holder[o].calls < MaxGets
  /\ rsv' = [rsv EXCEPT !.holder[o] =
               IF @.ptr # NoId THEN Hold(@, @.ptr)
                               ELSE [@ EXCEPT !.pc = "load", !.i = 0]]
  /\ OnlyReservation

\* auto is_reserved = reserve_arr_[i].load(); if (!is_reserved) ...
RGet_Load(o) ==
  /\ rsv.holder[o].pc = "load"
  /\ rsv' = [rsv EXCEPT !.holder[o] =
               IF rsv.reserve_arr[@.i] THEN [@ EXCEPT !.i = NextPos(@)]
                                       ELSE [@ EXCEPT !.pc = "cas"]]
  /\ OnlyReservation

\* A faulty reservation that stores true and takes the position whatever
\* the position holds by now.
RGet_CAS_Store(o) ==
  /\ rsv.holder[o].pc = "cas"
  /\ LET i == rsv.holder[o].i
     IN rsv' = [rsv EXCEPT !.reserve_arr[i] = TRUE, !.holder[o] = Hold(@, i)]
  /\ OnlyReservation

\* reserve_arr_[i].compare_exchange_strong(is_reserved, true);
\* if (!is_reserved) { ptr = make_unique<ElementHolder>(i, ...); break; }
\* A failed CAS leaves true in is_reserved and the loop goes on.
RGet_CAS(o) ==
  /\ rsv.holder[o].pc = "cas"
  /\ LET i == rsv.holder[o].i
     IN rsv' = IF rsv.reserve_arr[i]
                 THEN [rsv EXCEPT !.holder[o] = [@ EXCEPT !.pc = "load", !.i = NextPos(i)]]
                 ELSE [rsv EXCEPT !.reserve_arr[i] = TRUE, !.holder[o] = Hold(@, i)]
  /\ OnlyReservation

\* An OS thread ends outside Get: the destructor of its thread_local ptr runs
\* ~ElementHolder, reserved_arr_[pos_].store(false).  Another thread starts
\* under the same name.
RThreadExit(o) ==
  /\ rsv.holder[o].pc = "out" /\ rsv.holder[o] # NoHolder
  /\ LET i == rsv.holder[o].ptr
     IN rsv' = IF i = NoId
                 THEN [rsv EXCEPT !.holder[o] = NoHolder]
                 ELSE [rsv EXCEPT !.holder[o] = NoHolder, !.reserve_arr[i] = FALSE,
                                  !.freed = @ \cup {i}]
  /\ OnlyReservation

\* OS threads that start, call Get of the reservation-based pool and end.
NextReserve ==
  \E o \in Workers : RGet_Call(o) \/ RGet_Load(o) \/ RGet_CAS(o) \/ RThreadExit(o)

SpecReserve == Init /\ [][NextReserve]_vars

\* OS threads that start, call Get, use the descriptor and end.
NextPool == \E o \in Workers : Get(o) \/ UseDescriptor(o) \/ ThreadExit(o)

SpecPool == Init /\ [][NextPool]_vars

(***************************************************************************)
(* Properties                                                              *)
(***************************************************************************)

\* The DescriptorPool constructor has returned after a crash and no
\* operation has been started since.
Recovered == phase = "run" /\ gh.quiet /\ gh.crashes > 0

\* Every target of the PMwCAS call recorded in c holds its old value.
AllOld(c) == \A i \in 1 .. c.n : mem[c.targets[i].addr] = c.targets[i].old_val

\* Every target of the PMwCAS call recorded in c holds its new value.
AllNew(c) == \A i \in 1 .. c.n : mem[c.targets[i].addr] = c.targets[i].new_val

\* The constructor has returned after a single crash, which recovery has
\* survived without a further crash.
RecoveredOnce == Recovered /\ gh.crashes = 1

\* C1: once the pool has been re-opened after a crash, the targets of every
\* PMwCAS call the crash has interrupted (and that no other thread has
\* written to) are all equal to their old values or all equal to their new
\* values: never a mix, never a descriptor locator.
C1_CrashAtomicity ==
  RecoveredOnce =>
    \A t \in Threads : gh.cr[t].inop => AllOld(gh.cr[t]) \/ AllNew(gh.cr[t])

\* A state in which a crash has interrupted a PMwCAS call between the
\* flush of the header and the drain, and the pool has been re-opened.
C1_Witness ==
  /\ RecoveredOnce
  /\ \E t \in Threads : gh.cr[t].inop /\ gh.cr[t].n = kPMwCASCapacity
                        /\ gh.cr[t].durable /\ ~gh.cr[t].committed

\* C2: if the crash comes before status_ = kSucceeded of the interrupted
\* call has reached the medium, recovery (run to completion) leaves every
\* target of the call at its old value; if it comes after the drain that
\* follows the flush of the header has returned, recovery leaves every
\* target at its new value.  As in C1, the call is one whose targets no
\* other thread has written to.
C2_CommitPoint ==
  RecoveredOnce =>
    \A t \in Threads :
      gh.cr[t].inop =>
        /\ ~gh.cr[t].durable => AllOld(gh.cr[t])
        /\ gh.cr[t].committed => AllNew(gh.cr[t])

\* Two calls on different words have been interrupted by the same crash, one
\* after its commit drain and one before its status was persisted; both have
\* been recovered.
C2_Witness ==
  /\ RecoveredOnce
  /\ \E t \in Threads : gh.cr[t].inop /\ gh.cr[t].committed /\ gh.cr[t].n > 0
                        /\ AllNew(gh.cr[t])
  /\ \E u \in Threads : gh.cr[u].inop /\ ~gh.cr[u].durable /\ gh.cr[u].n > 0
                        /\ AllOld(gh.cr[u])

\* op a precedes op b in the sequence s of updates of a word.
Before(s, a, b) == \E i, j \in 1 .. Len(s) : i < j /\ s[i] = a /\ s[j] = b

\* C3: the successful PMwCAS calls are ordered the same way on every word
\* they share: no two of them are ordered one way on a word x and the other
\* way on a word y (gh.hist[w] is the sequence of the calls that have put
\* their new value into w).
C3_SameOrder ==
  \A x, y \in Words : \A a, b \in 1 .. MaxOps :
    a # b => ~(Before(gh.hist[x], a, b) /\ Before(gh.hist[y], b, a))

\* Two threads have each completed a successful PMwCAS on the same two words.
C3_Witness ==
  /\ \A w \in Words : Len(gh.hist[w]) = 2 /\ gh.hist[w][1] # gh.hist[w][2]
  /\ \A t \in Threads : gh.last[t].ret = "pmwcas_true" /\ gh.last[t].n = 2

RECURSIVE SumWords(_)
SumWords(S) == IF S = {} THEN 0 ELSE LET w == CHOOSE x \in S : TRUE
                                     IN mem[w] + SumWords(S \ {w})

\* No thread is inside a call or has registered targets for its next call.
Quiescent == \A t \in Threads : th[t].pc = "idle" /\ desc[t].target_count = 0

\* C4: in the increment workload, whenever all threads are between calls the
\* sum over the words equals the number of PMwCAS calls that have returned
\* true times kPMwCASCapacity.
C4_NoLostUpdate == Quiescent => SumWords(Words) = gh.succ * kPMwCASCapacity

\* Both threads have succeeded, one of them after a failed attempt.
C4_Witness ==
  /\ Quiescent /\ gh.succ = 2 /\ ops = 3
  /\ \A t \in Threads : gh.last[t].ret = "pmwcas_true"

\* Thread t has just returned from PMwCAS with result ret.
Returned(t, ret) == phase = "run" /\ th[t].pc = "idle" /\ th[t].ret = ret

\* C5: when PMwCAS has returned true, every target word that nobody has
\* written to since the call wrote it holds new_val (a value without a
\* reserved bit), in the caches and on the medium.
C5_SuccessPostcondition ==
  \A t \in Threads :
    Returned(t, "pmwcas_true") =>
      \A i \in 1 .. th[t].n :
        LET tgt == desc[t].targets[i]
        IN gh.writer[tgt.addr] = t =>
             /\ mem[tgt.addr] = tgt.new_val
             /\ ~IsIntermediate(mem[tgt.addr])
             /\ pm[tgt.addr] = {tgt.new_val}

\* A PMwCAS on kPMwCASCapacity words has returned true and its words are
\* untouched since.
C5_Witness ==
  \E t \in Threads :
    /\ Returned(t, "pmwcas_true") /\ th[t].n = kPMwCASCapacity
    /\ \A i \in 1 .. th[t].n : gh.writer[desc[t].targets[i].addr] = t

\* C6: when PMwCAS has returned false, every target it had embedded its
\* descriptor in (and that nobody has written to since) holds old_val again,
\* the call has written to no target at or after the failing index, and no
\* word holds the locator of the descriptor, in the caches or on the medium.
C6_FailurePostcondition ==
  \A t \in Threads :
    Returned(t, "pmwcas_false") =>
      /\ \A i \in 1 .. th[t].embedded :
           LET tgt == desc[t].targets[i]
           IN gh.writer[tgt.addr] = t => mem[tgt.addr] = tgt.old_val
      /\ gh.wr[t] \subseteq TargetWords(desc[t], th[t].embedded)
      /\ \A w \in Words : mem[w] # DescAddr(t) /\ DescAddr(t) \notin pm[w]

\* A PMwCAS has returned false after embedding in its first target and
\* failing on its second, whose word holds a value put there by another
\* thread.
C6_Witness ==
  \E t \in Threads :
    /\ Returned(t, "pmwcas_false") /\ th[t].n = 2 /\ th[t].embedded = 1
    /\ gh.writer[desc[t].targets[1].addr] = t
    /\ gh.writer[desc[t].targets[2].addr] \in Threads \ {t}
    /\ mem[desc[t].targets[2].addr] # desc[t].targets[2].old_val

\* Thread t has returned from PLoad, called after its own PMwCAS has
\* returned false.
LoadedAfterFailure(t) ==
  phase = "run" /\ th[t].pc = "idle" /\ th[t].ret = "pload" /\ gh.last[t].ret = "pmwcas_false"

\* C7 as stated: after PMwCAS has returned false, PLoad of every registered
\* target that no other thread has written to returns old_val.
C7_AllTargetsOld ==
  \A t \in Threads :
    LoadedAfterFailure(t) =>
      \A i \in 1 .. gh.last[t].n :
        LET tgt == desc[t].targets[i]
        IN tgt.addr = th[t].addr /\ gh.writer[tgt.addr] \in {-1, t} =>
             th[t].word = tgt.old_val

\* C7, amended: after PMwCAS has returned false, PLoad of every target the
\* call had embedded its descriptor in (the targets below the failing index)
\* returns old_val, unless another thread has written to the word since.
C7_EmbeddedTargetsOld ==
  \A t \in Threads :
    LoadedAfterFailure(t) =>
      \A i \in 1 .. gh.last[t].embedded :
        LET tgt == desc[t].targets[i]
        IN tgt.addr = th[t].addr /\ gh.writer[tgt.addr] = t =>
             th[t].word = tgt.old_val

\* A PMwCAS has embedded its descriptor in its first target, failed on the
\* second and returned false; the thread has then loaded the first target.
C7_Witness ==
  \E t \in Threads :
    /\ LoadedAfterFailure(t) /\ gh.last[t].embedded = 1 /\ gh.last[t].n = 2
    /\ th[t].addr = desc[t].targets[1].addr
    /\ gh.writer[th[t].addr] = t

\* C8: when the DescriptorPool constructor has returned after a crash, every
\* descriptor has status kCompleted and no targets, and no word holds a
\* descriptor locator.
C8_PoolRecovered ==
  Recovered =>
    /\ \A t \in Threads : desc[t].status = kCompleted /\ desc[t].target_count = 0
    /\ \A w \in Words : ~HasFlag(mem[w], kPMwCASFlag)

\* The constructor has returned after a crash that interrupted a PMwCAS and
\* a second crash that interrupted the recovery.
C8_Witness ==
  /\ Recovered /\ gh.crashes = 2
  /\ \E t \in Threads : gh.cr[t].inop /\ gh.cr[t].n > 0

InResolver(l) == l.pc \in {"rs_spin", "rs_sleep", "rs_persist", "rs_cas"}

\* C9: the word PLoad returns, and the word ResolveIntermediateState leaves
\* in the variable of its caller whenever it returns, has neither the dirty
\* flag nor the descriptor flag set.
C9_CleanWord ==
  [][\A t \in Threads :
       \/ th'[t].pc = "idle" /\ th'[t].ret = "pload" /\ th'[t] # th[t]
       \/ InResolver(th[t]) /\ ~InResolver(th'[t])
       => ~IsIntermediate(th'[t].word)]_vars

\* A PLoad has returned the value of a PCAS whose thread has not cleared the
\* dirty flag yet: the load has cleared it.
C9_Witness ==
  \E t, u \in Threads :
    /\ t # u
    /\ th[t].pc = "idle" /\ th[t].ret = "pload"
    /\ th[u].pc = "pcas_clean" /\ th[u].addr = th[t].addr
    /\ th[t].word = th[u].desired
    /\ mem[th[t].addr] = th[u].desired

\* C10: a PLoad of the reader that has entered ResolveIntermediateState
\* returns, whatever the other threads do (in particular when the owner of
\* the descriptor embedded in the word takes no further step).
C10_ReaderReturns ==
  (th[Reader].caller = "pload" /\ InResolver(th[Reader])) ~> (th[Reader].pc = "idle")

\* The reader is inside ResolveIntermediateState for a word that holds the
\* descriptor locator of another thread.
C10_Witness ==
  /\ th[Reader].caller = "pload" /\ InResolver(th[Reader])
  /\ \E t \in Threads \ {Reader} : mem[th[Reader].addr] = DescAddr(t)

\* C11: once PCAS has put desired|dirty in the word and has passed its
\* pmem_persist, and from then on after it has returned true, the medium
\* holds no content of the word other than desired (with or without the dirty
\* flag) as long as no other call has written the word: whichever content a
\* crash leaves behind, it is not the value the word had before this PCAS.
C11_PersistBeforeReturn ==
  \A t \in Threads :
    ( /\ phase = "run"
      /\ th[t].pc = "pcas_clean" \/ Returned(t, "pcas_true")
      /\ gh.writer[th[t].addr] = t )
    => \A v \in pm[th[t].addr] \cup {mem[th[t].addr]} :
         ClearFlag(v, kDirtyFlag) = th[t].desired

\* A PCAS has returned true for a word that held another value before, and
\* the other thread has read the word.
C11_Witness ==
  \E t \in Threads :
    /\ Returned(t, "pcas_true") /\ gh.writer[th[t].addr] = t
    /\ th[t].expected # th[t].desired
    /\ mem[th[t].addr] = th[t].desired
    /\ \E u \in Threads \ {t} : th[u].ret = "pload" /\ th[u].addr = th[t].addr

\* The step in which the PCAS call of thread t returns false.
PCASReturnsFalse(t) ==
  /\ th'[t].pc = "idle" /\ th'[t].ret = "pcas_false"
  /\ \/ th[t].pc # "idle"
     \/ ops' # ops /\ \A u \in Threads \ {t} : th'[u] = th[u]

\* C12: when PCAS returns false, its own CAS has never succeeded (the call
\* has stored neither desired|dirty nor desired), and `expected' holds the
\* content the word has at that moment, which has no dirty flag and differs
\* from the expected value the caller passed in.
C12_FailureOfPCAS ==
  [][\A t \in Threads :
       PCASReturnsFalse(t) =>
         /\ gh'.wr[t] = {}
         /\ th'[t].word = mem'[th'[t].addr]
         /\ ~HasFlag(th'[t].word, kDirtyFlag)
         /\ th'[t].word # th'[t].expected]_vars

\* A PCAS has returned false after its resolver cleared the dirty flag that
\* the PCAS of another thread, still before its own second CAS, had set.
C12_Witness ==
  \E t \in Threads : \E u \in Threads \ {t} :
    /\ Returned(t, "pcas_false")
    /\ th[u].pc \in {"pcas_persist", "pcas_clean"} /\ th[u].addr = th[t].addr
    /\ th[t].word = th[u].desired /\ mem[th[t].addr] = th[u].desired
    /\ th[t].word # th[t].expected

\* The threads whose PCAS has stored desired|dirty and has not returned yet.
PCASInFlight == {t \in Threads : th[t].pc \in {"pcas_persist", "pcas_clean"}}

\* C13: in the increment workload the payload of the word is at every moment
\* the number of PCAS calls that have returned true plus the number of calls
\* that have stored their value and are about to return true: every
\* successful PCAS is exactly one increment, and once all threads are done
\* the word holds the number of completed iterations.
C13_NoLostIncrement ==
  /\ ClearFlag(mem[IncWord], kDirtyFlag) = gh.psucc + Cardinality(PCASInFlight)
  /\ \A t \in Threads : th[t].pc # "pcas_cas"

\* All threads are between iterations after two increments, one of which
\* took a second PCAS because the other thread had incremented first.
C13_Witness ==
  /\ \A t \in Threads : Returned(t, "pcas_true")
  /\ gh.psucc = 2 /\ ops = 5 /\ mem[IncWord] = 2

\* C14: all calls of Get by one live thread have returned the same pointer,
\* and no pointer has been returned to two threads that are both alive.
C14_GetPerThread ==
  \A o \in Workers :
    /\ Cardinality(tls[o].got) <= 1
    /\ \A q \in Workers \ {o} : tls[o].got \cap tls[q].got = {}

\* Two live threads have each called Get twice and one of them has registered
\* a target in its descriptor; the third thread holds no ID.
C14_Witness ==
  \E o \in Workers : \E q \in Workers \ {o} :
    /\ tls[o].calls = 2 /\ tls[q].calls = 2
    /\ tls[o].id = 1 /\ tls[q].id = 0
    /\ desc[1].target_count > 0
    /\ \A r \in Workers \ {o, q} : tls[r].id = NoId

\* C15: no Add call raises target_count above kPMwCASCapacity or stores a
\* target behind targets_[kPMwCASCapacity - 1].
C15_AddFailsFast ==
  \A t \in Threads :
    /\ desc[t].target_count <= kPMwCASCapacity
    /\ gh.past[t] = NoTarget

\* A further Add on a full descriptor has been stopped: by the assertion, or
\* by the older interface returning false.
C15_Witness ==
  \E t \in Threads :
    /\ desc[t].target_count = kPMwCASCapacity
    /\ phase = "abort" \/ th[t].ret = "add_false"

\* C16: when PMwCAS has returned on a descriptor without targets, it has
\* returned true, the call has written no word, and the descriptor is
\* neutral again: status Completed and no target.
C16_EmptyPMwCAS ==
  \A t \in Threads :
    ( /\ phase = "run" /\ th[t].pc = "idle"
      /\ th[t].ret \in {"pmwcas_true", "pmwcas_false"}
      /\ th[t].n = 0 )
    => /\ th[t].ret = "pmwcas_true"
       /\ gh.wr[t] = {}
       /\ desc[t].status = kCompleted /\ desc[t].target_count = 0

\* A PMwCAS without targets has returned while the other thread is inside a
\* PMwCAS that has embedded its descriptor.
C16_Witness ==
  \E t \in Threads : \E u \in Threads \ {t} :
    /\ Returned(t, "pmwcas_true") /\ th[t].n = 0
    /\ gh.last[t] = [ret |-> "pmwcas_true", embedded |-> 0, n |-> 0]
    /\ InPMwCAS(u) /\ \E w \in Words : mem[w] = DescAddr(u)

\* C17: when the constructor has returned and then has run Initialize on
\* every descriptor a second time, the descriptors and the words are those
\* the first run has left.
C17_InitializeIdempotent ==
  (gh.reopened /\ gh.snap.phase = "run" /\ phase \in {"run", "fault"})
    => /\ phase = "run"
       /\ desc = gh.snap.desc
       /\ mem = gh.snap.mem

\* The second run has ended on a pool that was found with a Succeeded
\* descriptor of two targets, one word holding the locator and the other a
\* dirty value; the first run has rolled the one forward and cleaned the other.
C17_Witness ==
  /\ gh.reopened /\ phase = "run"
  /\ gh.found.desc[0].status = kSucceeded
  /\ gh.found.desc[0].target_count = kPMwCASCapacity
  /\ gh.found.mem = [w \in Words |-> IF w = 1 THEN DescAddr(0)
                                              ELSE SetFlag(0, kDirtyFlag)]
  /\ mem = [w \in Words |-> IF w = 1 THEN 1 ELSE 0]

\* C18: for a word without the dirty flag (with or without the descriptor
\* flag), the word after SetDirtyFlag reports not-persisted; after
\* ClearDirtyFlag it equals the original word and does not report
\* not-persisted.
C18_DirtyRoundTrip ==
  ~HasFlag(wd.orig, kWordDirtyFlag) =>
    /\ wd.step = "dirty" => IsNotPersisted(wd.a)
    /\ wd.step = "cleared" =>
         /\ IsNotPersisted(wd.mid)
         /\ WordEq(wd.a, wd.orig)
         /\ ~IsNotPersisted(wd.a)

\* The dirty flag of a word that carries the descriptor flag and a payload
\* has been set and cleared again.
C18_Witness ==
  /\ wd.step = "cleared" /\ ~HasFlag(wd.orig, kWordDirtyFlag)
  /\ HasFlag(wd.orig, kWordPMwCASFlag) /\ wd.orig % kWordDirtyFlag = 5
  /\ wd.mid = SetFlag(wd.orig, kWordDirtyFlag)

\* A user value whose two high bits are zero.
Permitted(v) == v < kWordDirtyFlag

\* The bits of a word below the two reserved bits.
Payload(word) == word % kWordDirtyFlag

\* C19: the word constructed from a permitted value without the descriptor
\* flag is not intermediate and its data is the value; the word constructed
\* with the descriptor flag is intermediate; and two words are equal exactly
\* when their payloads, their descriptor flags and their dirty flags are.
C19_WordEncoding ==
  /\ (wd.step = "built" /\ Permitted(wd.va)) =>
       IF wd.fa
         THEN WordIsIntermediate(wd.a)
         ELSE ~WordIsIntermediate(wd.a) /\ GetTargetData(wd.a) = wd.va
  /\ wd.step \in {"built", "dirty", "cleared"} =>
       ( WordEq(wd.a, wd.b) <=>
           /\ Payload(wd.a) = Payload(wd.b)
           /\ HasFlag(wd.a, kWordPMwCASFlag) = HasFlag(wd.b, kWordPMwCASFlag)
           /\ HasFlag(wd.a, kWordDirtyFlag) = HasFlag(wd.b, kWordDirtyFlag) )

\* Two words have been constructed from the same permitted value, one with
\* the descriptor flag and one without: they differ.
C19_Witness ==
  /\ wd.step = "built" /\ Permitted(wd.va) /\ wd.va = wd.vb /\ wd.va = 9
  /\ wd.fa /\ ~wd.fb
  /\ ~WordEq(wd.a, wd.b) /\ GetTargetData(wd.b) = wd.vb

\* C20: while a PMwCAS is between the store of status Succeeded and the end
\* of its redo loop, if the medium may hold Succeeded for its descriptor then
\* it holds for every target word the descriptor address or new_val (with or
\* without the dirty flag), never old_val still.
C20_CommitOrdering ==
  \A t \in Threads :
    ( /\ phase = "run" /\ th[t].pc \in {"commit_drain", "redo"}
      /\ \E h \in pdesc[t].hdr : h.status = kSucceeded )
    => \A i \in 1 .. th[t].n :
         \A v \in pm[desc[t].targets[i].addr] :
           ClearFlag(v, kDirtyFlag) \in {DescAddr(t), desc[t].targets[i].new_val}

\* A PMwCAS of two targets is in its redo loop: Succeeded and the embedded
\* descriptor addresses have been drained.
C20_Witness ==
  \E t \in Threads :
    /\ phase = "run" /\ th[t].pc = "redo" /\ th[t].n = kPMwCASCapacity
    /\ \A h \in pdesc[t].hdr : h.status = kSucceeded
    /\ \A i \in 1 .. th[t].n : pm[desc[t].targets[i].addr] = {DescAddr(t)}

\* C21: whenever the medium may hold the locator of a descriptor in a word,
\* every image the medium may hold of that descriptor has status Failed or
\* Succeeded and has, among its first target_count targets, the target (word,
\* old and new value) of the call that embedded the locator; and while a call
\* is embedding, the medium holds status Failed and the registered targets
\* and nothing else for its descriptor.
C21_PrepareOrdering ==
  /\ \A w \in Words : \A t \in Threads :
       DescAddr(t) \in pm[w] =>
         \A d \in DescImages(t) :
           /\ d.status \in {kFailed, kSucceeded}
           /\ \E i \in 1 .. d.target_count : d.targets[i] = gh.inst[t][w]
  /\ \A t \in Threads :
       (phase = "run" /\ th[t].pc \in {"embed_load", "embed_cas"}) =>
         /\ pdesc[t].hdr = {[status |-> kFailed, target_count |-> th[t].n]}
         /\ \A i \in 1 .. th[t].n : pdesc[t].targets[i] = {desc[t].targets[i]}

\* C21 for the crash points of a pool that has not crashed before.
C21_BeforeFirstCrash == gh.crashes = 0 => C21_PrepareOrdering

\* A call on two words has embedded its locator in both; the medium may
\* hold the locator in each of them.
C21_Witness ==
  \E t \in Threads :
    /\ phase = "run" /\ th[t].pc = "commit" /\ th[t].n = kPMwCASCapacity
    /\ \A i \in 1 .. th[t].n : DescAddr(t) \in pm[desc[t].targets[i].addr]

\* The step in which thread t returns from PMwCAS.
PMwCASReturns(t) == th[t].pc = "finish" /\ th'[t].pc = "idle"

\* C22: the status of a descriptor changes only from Completed to Failed at
\* the start of a PMwCAS call, from Failed to Succeeded when every one of its
\* target_count targets holds the descriptor locator, and to Completed in
\* the step in which the call returns: from Succeeded when it returns true,
\* from Failed when it returns false.  Every call starts from Completed, and
\* every return leaves status Completed and target_count 0.
C22_StatusMachine ==
  [][\A t \in Threads :
       /\ desc'[t].status # desc[t].status =>
            \/ /\ desc[t].status = kCompleted /\ desc'[t].status = kFailed
               /\ th[t].pc = "idle" /\ th'[t].pc = "prepare_drain"
            \/ /\ desc[t].status = kFailed /\ desc'[t].status = kSucceeded
               /\ \A i \in 1 .. desc[t].target_count :
                    mem[desc[t].targets[i].addr] = DescAddr(t)
            \/ /\ desc[t].status = kSucceeded /\ desc'[t].status = kCompleted
               /\ PMwCASReturns(t) /\ th'[t].ret = "pmwcas_true"
            \/ /\ desc[t].status = kFailed /\ desc'[t].status = kCompleted
               /\ PMwCASReturns(t) /\ th'[t].ret = "pmwcas_false"
       /\ (th[t].pc = "idle" /\ th'[t].pc = "prepare_drain") =>
            desc[t].status = kCompleted /\ desc'[t].status = kFailed
       /\ PMwCASReturns(t) =>
            /\ desc'[t].status = kCompleted /\ desc'[t].target_count = 0
            /\ th'[t].ret = "pmwcas_true" <=> desc[t].status = kSucceeded
            /\ th'[t].ret = "pmwcas_false" <=> desc[t].status = kFailed]_vars

\* One thread has returned true from a PMwCAS on two words and the other
\* has returned false after embedding its descriptor in one of them; both
\* descriptors are neutral again.
C22_Witness ==
  \E t \in Threads : \E u \in Threads \ {t} :
    /\ Returned(t, "pmwcas_true") /\ gh.last[t].n = kPMwCASCapacity
    /\ Returned(u, "pmwcas_false") /\ gh.last[u].embedded = 1
    /\ \A x \in {t, u} : desc[x].status = kCompleted /\ desc[x].target_count = 0

\* Thread t is inside PMwCAS between the CAS that has embedded its
\* descriptor in targets_[j] and the Redo or Undo of that target.
Installed(t, j) ==
  \/ th[t].pc \in {"embed_load", "embed_cas"} /\ j <= th[t].i
  \/ th[t].pc \in {"commit", "commit_drain"}
  \/ th[t].pc = "redo" /\ j > th[t].i
  \/ th[t].pc = "undo" /\ j > th[t].i /\ j <= th[t].embedded

InEmbed(t) == phase = "run" /\ th[t].pc \in {"embed_load", "embed_cas"}

\* The step in which EmbedDescriptor of the current target of thread t
\* returns true: PMwCAS goes on to the next target or, after the last one,
\* to the commit.
EmbedReturnsTrue(t) ==
  /\ InEmbed(t)
  /\ \/ th'[t].pc = "embed_load" /\ th'[t].i = th[t].i + 1
     \/ th'[t].pc = "commit"

\* The step in which EmbedDescriptor of the current target of thread t
\* returns false: PMwCAS leaves the embedding loop with this target not
\* embedded.
EmbedReturnsFalse(t) ==
  /\ InEmbed(t)
  /\ th'[t].pc \in {"undo", "finish"} /\ th'[t].embedded = th[t].i

\* C24: EmbedDescriptor returns true in exactly the steps in which its CAS
\* replaces old_val by the descriptor locator, and the word then holds the
\* locator; a first attempt that finds a clean value other than old_val
\* returns false in that step and writes nothing; and whenever it returns
\* false the step writes nothing.
C24_EmbedResult ==
  [][\A t \in Threads :
       InEmbed(t) =>
         LET tgt == desc[t].targets[th[t].i + 1]
         IN /\ EmbedReturnsTrue(t) <=>
                 /\ mem[tgt.addr] = tgt.old_val
                 /\ mem'[tgt.addr] = DescAddr(t)
            /\ ( /\ th[t].pc = "embed_load" /\ th[t].retry = 0 /\ th'[t] # th[t]
                 /\ ~IsIntermediate(mem[tgt.addr]) /\ mem[tgt.addr] # tgt.old_val )
               => EmbedReturnsFalse(t) /\ mem' = mem
            /\ EmbedReturnsFalse(t) => mem' = mem]_vars

\* EmbedDescriptor has returned false for the first target of a call, whose
\* word holds a clean value other than old_val, and has returned true to the
\* other thread, whose descriptor is embedded in the other word.
C24_Witness ==
  \E t \in Threads : \E u \in Threads \ {t} :
    /\ phase = "run" /\ th[t].pc = "finish" /\ th[t].embedded = 0 /\ th[t].n > 0
    /\ ~IsIntermediate(mem[desc[t].targets[1].addr])
    /\ mem[desc[t].targets[1].addr] # desc[t].targets[1].old_val
    /\ \E w \in Words : mem[w] = DescAddr(u) /\ gh.inst[u][w].addr = w

\* The attempts EmbedDescriptor makes at most on one target.
MaxAttempts == kRetryNum + 1

\* An upper bound on the steps a thread in the local state l takes before
\* its PMwCAS call returns: two accesses (load, CAS) for every attempt left
\* on the current and the further targets, then the commit and its drain,
\* one store for every target, and the final drain with the return.
Rank(l) ==
  LET tail == l.n + 3
      attempts == 2 * (MaxAttempts - l.retry) + 2 * MaxAttempts * (l.n - l.i - 1)
  IN CASE l.pc = "prepare_drain" -> 2 * MaxAttempts * l.n + tail + 1
       [] l.pc = "embed_load" -> attempts + tail
       [] l.pc = "embed_cas" -> attempts + tail - 1
       [] l.pc = "commit" -> tail
       [] l.pc = "commit_drain" -> tail - 1
       [] l.pc = "redo" -> l.n - l.i + 1
       [] l.pc = "undo" -> l.embedded - l.i + 1
       [] l.pc = "finish" -> 1
       [] OTHER -> 0

\* The largest number of steps of one PMwCAS call.
MaxOwnSteps == 2 * MaxAttempts * kPMwCASCapacity + kPMwCASCapacity + 5

\* C25: a thread inside PMwCAS always has a step it can take whatever the
\* other threads do, every step it takes brings it closer to the return by
\* the measure Rank (so a call takes at most MaxOwnSteps steps), no target is
\* attempted more than kRetryNum + 1 times, and a caller that keeps being
\* scheduled returns even if every other thread has stopped for ever.
C25_BoundedPMwCAS ==
  /\ [](\A t \in Threads :
          /\ th[t].retry <= kRetryNum
          /\ InPMwCAS(t) => /\ ENABLED PMwCASRun(t)
                            /\ Rank(th[t]) < MaxOwnSteps)
  /\ [][\A t \in Threads :
          (InPMwCAS(t) /\ th'[t] # th[t]) => Rank(th'[t]) < Rank(th[t])]_vars
  /\ (InPMwCAS(Caller) ~> th[Caller].pc = "idle")

\* The caller has returned false from a call whose first target still holds
\* the descriptor locator of the other thread, which is inside its own call.
C25_Witness ==
  \E u \in Threads \ {Caller} :
    /\ Returned(Caller, "pmwcas_false") /\ gh.last[Caller].embedded = 0
    /\ mem[desc[Caller].targets[1].addr] = DescAddr(u)
    /\ InPMwCAS(u)

\* C26: EmbedDescriptor does not return false on a word that it observes to
\* hold old_val with the dirty flag alone (it would clear the flag and embed
\* the locator): in no step in which it returns false is the word it has
\* just observed old_val|dirty.
C26_InstallHelps ==
  [][EmbedReturnsFalse(Caller) =>
       LET tgt == desc[Caller].targets[th[Caller].i + 1]
       IN mem[tgt.addr] # SetFlag(tgt.old_val, kDirtyFlag)]_vars

\* The caller is at its last attempt to embed in a word that holds old_val
\* with the dirty flag, left by a PCAS whose thread has stopped before its
\* second CAS.
C26_Witness ==
  /\ phase = "run" /\ th[Caller].pc = "embed_load" /\ th[Caller].retry = kRetryNum
  /\ LET tgt == desc[Caller].targets[th[Caller].i + 1]
     IN /\ mem[tgt.addr] = SetFlag(tgt.old_val, kDirtyFlag)
        /\ th[Stalled].pc = "pcas_clean" /\ th[Stalled].addr = tgt.addr

\* C27: a step of a thread inside ResolveIntermediateState changes no word
\* but the one it resolves, and changes that one only by its CAS, from a
\* word with the dirty flag and without the descriptor flag to the same word
\* with the dirty flag cleared; the CAS is reached only through the
\* pmem_persist of the word, after which the medium holds the word as it is.
C27_ResolverWrites ==
  [][\A t \in Threads :
       (InResolver(th[t]) /\ th'[t] # th[t]) =>
         LET w == th[t].addr
         IN /\ \A x \in Words \ {w} : mem'[x] = mem[x]
            /\ mem'[w] # mem[w] =>
                 /\ th[t].pc = "rs_cas"
                 /\ HasFlag(mem[w], kDirtyFlag) /\ ~HasFlag(mem[w], kPMwCASFlag)
                 /\ mem'[w] = ClearFlag(mem[w], kDirtyFlag)
            /\ th'[t].pc = "rs_cas" =>
                 th[t].pc = "rs_persist" /\ pm'[w] = {mem[w]}]_vars

\* The resolver of a PLoad has persisted a dirty word and cleared its flag
\* while the PCAS that wrote the word is before its second CAS: the medium
\* holds the word with the flag or without it.
C27_Witness ==
  \E t \in Threads : \E u \in Threads \ {t} :
    /\ phase = "run" /\ th[t].pc = "idle" /\ th[t].caller = "pload"
    /\ th[u].pc = "pcas_clean" /\ th[u].addr = th[t].addr
    /\ mem[th[t].addr] = th[u].desired
    /\ pm[th[t].addr] = {SetFlag(th[u].desired, kDirtyFlag), th[u].desired}

C29_ReturnsAfterCAS ==
  [][\A t \in Threads :
       (phase = "run" /\ phase' = "run" /\ th[t].pc = "rs_cas" /\ th'[t] # th[t])
         => /\ ~InResolver(th'[t])
            /\ th'[t].word = ClearFlag(th[t].word, kDirtyFlag)]_vars

\* A thread is about to execute the CAS of the dirty-only branch on a word
\* that holds another payload by now, again with the dirty flag: the CAS
\* will fail.
C29_Witness ==
  \E t \in Threads :
    /\ phase = "run" /\ th[t].pc = "rs_cas"
    /\ HasFlag(mem[th[t].addr], kDirtyFlag)
    /\ ~HasFlag(mem[th[t].addr], kPMwCASFlag)
    /\ mem[th[t].addr] # th[t].word


\* The number of steps a thread inside ResolveIntermediateState still takes
\* while the word keeps the dirty flag alone: the rest of the spinning loop,
\* the reload after the sleep, pmem_persist and the CAS.
ResolveRank(l) ==
  CASE l.pc = "rs_spin" -> kRetryNum - l.spin + 3
    [] l.pc = "rs_sleep" -> 3
    [] l.pc = "rs_persist" -> 2
    [] l.pc = "rs_cas" -> 1
    [] OTHER -> 0

\* The reader is inside the ResolveIntermediateState of a PLoad of word w,
\* which holds payload v with the dirty flag alone.
LoadsLeft(w, v) ==
  /\ phase = "run" /\ InResolver(th[Reader])
  /\ th[Reader].caller = "pload" /\ th[Reader].addr = w
  /\ mem[w] = SetFlag(v, kDirtyFlag)

\* C30: a PLoad of a word that a PCAS has left with payload v and the dirty
\* flag alone (its thread has stopped before the second CAS, or a crash has
\* ended the call there and the pool has been re-opened) can always take its
\* next step, takes at most kRetryNum + 3 steps while the word stays like
\* this, returns v and nothing else, at that step the word holds v without
\* the dirty flag, and unless another crash ends the PLoad it does return.
C30_LeftDirtyResolved ==
  /\ [](\A w \in Words : \A v \in Values :
          LoadsLeft(w, v) => /\ ENABLED ResolveStep(Reader)
                             /\ ResolveRank(th[Reader]) <= kRetryNum + 3)
  /\ [][\A w \in Words : \A v \in Values :
          (LoadsLeft(w, v) /\ phase' = "run" /\ th'[Reader] # th[Reader]) =>
             /\ ResolveRank(th'[Reader]) < ResolveRank(th[Reader])
             /\ InResolver(th'[Reader]) => mem'[w] = mem[w]
             /\ ~InResolver(th'[Reader]) =>
                  /\ th'[Reader].pc = "idle" /\ th'[Reader].ret = "pload"
                  /\ th'[Reader].word = v /\ mem'[w] = v]_vars
  /\ \A w \in Words : \A v \in Values : \A c \in 0 .. MaxCrash :
       (LoadsLeft(w, v) /\ gh.crashes = c) ~>
          \/ /\ phase = "run" /\ gh.crashes = c
             /\ th[Reader].pc = "idle" /\ th[Reader].ret = "pload"
             /\ th[Reader].addr = w /\ th[Reader].word = v /\ mem[w] = v
          \/ gh.crashes > c

\* A crash has ended a PCAS after its pmem_persist, the pool has been
\* re-opened with the word still dirty, the thread of the PCAS has done
\* nothing since, and a PLoad has returned the payload and cleared the flag.
C30_Witness ==
  /\ phase = "run" /\ gh.crashes = 1 /\ th[Stopped].pc = "idle"
  /\ th[Reader].pc = "idle" /\ th[Reader].ret = "pload"
  /\ LET w == th[Reader].addr
     IN /\ th[Reader].word = 1 /\ mem[w] = 1
        /\ SetFlag(1, kDirtyFlag) \in pm[w]


\* Thread t is between the first and the second CAS of a PCAS, and the word
\* still holds what the first CAS wrote.
HoldsDirtyOf(t) ==
  /\ phase = "run" /\ th[t].pc \in {"pcas_persist", "pcas_clean"}
  /\ mem[th[t].addr] = SetFlag(th[t].desired, kDirtyFlag)

\* C31: while a PCAS is between its first and its second CAS and the word
\* holds desired|dirty, a step changes the word only to desired, and a step
\* of another thread that does so is a CAS that clears the dirty flag: the
\* CAS of ResolveIntermediateState, or the second CAS of a PCAS that wrote
\* the same desired|dirty earlier; and the step by which PCAS returns true
\* leaves the word without the desired|dirty that the call wrote.
C31_SecondCAS ==
  [][\A t \in Threads :
       /\ HoldsDirtyOf(t) =>
            LET w == th[t].addr
            IN /\ mem'[w] \in {mem[w], th[t].desired}
               /\ (mem'[w] # mem[w] /\ th'[t] = th[t]) =>
                    \E u \in Threads \ {t} :
                      /\ th[u].pc \in {"rs_cas", "pcas_clean"}
                      /\ th[u].addr = w /\ th'[u] # th[u]
       /\ (th[t].pc = "pcas_clean" /\ th'[t].pc = "idle" /\ th'[t].ret = "pcas_true")
            => mem'[th[t].addr] # SetFlag(th[t].desired, kDirtyFlag)]_vars

\* The second CAS of a PCAS is about to fail: another PCAS found the dirty
\* word, cleaned it in ResolveIntermediateState and has replaced the value.
C31_Witness ==
  \E t, u \in Threads :
    /\ t # u /\ phase = "run"
    /\ th[t].pc = "pcas_clean" /\ th[u].pc = "pcas_persist"
    /\ th[u].addr = th[t].addr /\ th[u].expected = th[t].desired
    /\ mem[th[t].addr] = SetFlag(th[u].desired, kDirtyFlag)
    /\ th[u].desired # th[t].desired


\* The targets of descriptor d name different words.
DistinctTargets(d) ==
  \A i, j \in 1 .. d.target_count : i # j => d.targets[i].addr # d.targets[j].addr

\* C32: when Initialize recovers a descriptor (status not Completed) whose
\* targets name different words, every target word that had the dirty flag
\* has lost the dirty flag and nothing else; every other target word that
\* held the locator of the descriptor holds new_val if the status was
\* Succeeded and old_val if it was Failed; every other word is unchanged.
C32_RecoverTarget ==
  [][(phase = "open" /\ slot < kMaxThreadNum /\ slot' = slot + 1
        /\ desc[slot].status # kCompleted /\ DistinctTargets(desc[slot]))
       => LET d == desc[slot]
              succeeded == d.status = kSucceeded
          IN /\ \A i \in 1 .. d.target_count :
                  LET tgt == d.targets[i]
                      word == mem[tgt.addr]
                  IN mem'[tgt.addr] =
                       IF HasFlag(word, kDirtyFlag) THEN word - kDirtyFlag
                       ELSE IF word = DescAddr(slot)
                         THEN (IF succeeded THEN tgt.new_val ELSE tgt.old_val)
                       ELSE word
             /\ \A w \in Words \ TargetWords(d, d.target_count) : mem'[w] = mem[w]]_vars

\* Initialize has recovered a Failed descriptor of two targets: the word that
\* held the locator holds the old value of its target, and the word that
\* held the locator with the dirty flag holds the locator.
C32_Witness ==
  /\ phase = "open" /\ slot = 1 /\ ~gh.reopened
  /\ LET d == gh.found.desc[0]
     IN /\ d.status = kFailed /\ d.target_count = kPMwCASCapacity
        /\ DistinctTargets(d)
        /\ gh.found.mem[d.targets[1].addr] = DescAddr(0)
        /\ gh.found.mem[d.targets[2].addr] = SetFlag(DescAddr(0), kDirtyFlag)
        /\ mem[d.targets[1].addr] = d.targets[1].old_val
        /\ mem[d.targets[2].addr] = DescAddr(0)


\* C33: among PMwCAS calls whose targets are listed in address order and
\* equal their old values when the calls start, with no other writer:
\* EmbedDescriptor returns false only on a word that another thread has
\* written last; when every call that was started has returned, one of them
\* has returned true; and once a call has started, some call returns true.
C33_InstallProgress ==
  /\ [][\A t \in Threads :
          EmbedReturnsFalse(t) =>
            LET tgt == desc[t].targets[th[t].i + 1]
            IN /\ gh.writer[tgt.addr] \in Threads \ {t}
               /\ mem[tgt.addr] # tgt.old_val]_vars
  /\ []((/\ \A t \in Threads : th[t].pc = "idle"
         /\ \E t \in Threads : th[t].ret # "none")
          => \E t \in Threads : gh.last[t].ret = "pmwcas_true")
  /\ ((\E t \in Threads : InPMwCAS(t)) ~> (\E t \in Threads : th[t].ret = "pmwcas_true"))

\* Both threads have called PMwCAS on the same two words: one has returned
\* true, the other false without having embedded its descriptor anywhere.
C33_Witness ==
  \E t \in Threads : \E u \in Threads \ {t} :
    /\ Returned(t, "pmwcas_true") /\ gh.last[t].n = kPMwCASCapacity
    /\ Returned(u, "pmwcas_false") /\ gh.last[u].n = kPMwCASCapacity
    /\ gh.last[u].embedded = 0
    /\ \A w \in Words : mem[w] = 1


\* OS thread o owns an ElementHolder for position i.
Holds(o, i) == rsv.holder[o].ptr = i

\* C34: in the reservation-based pool no position is owned by two OS threads
\* at once, and every owned position is marked reserved; Get returns a
\* position to a thread that owned none only in a step that finds the
\* position owned by nobody, so while every position is owned the call of a
\* further thread does not return; and all calls of one thread return the
\* same position.
C34_Reservation ==
  /\ [](\A i \in Slots : \A o \in Workers : \A q \in Workers \ {o} :
          /\ ~(Holds(o, i) /\ Holds(q, i))
          /\ Holds(o, i) => rsv.reserve_arr[i]
          /\ Cardinality(rsv.holder[o].got) <= 1)
  /\ [][\A o \in Workers :
          (rsv.holder[o].ptr = NoId /\ rsv'.holder[o].ptr # NoId) =>
             /\ \A q \in Workers : ~Holds(q, rsv'.holder[o].ptr)
             /\ \E i \in Slots : \A q \in Workers : ~Holds(q, i)]_vars

\* Every position is owned, one of them by a thread that got it after
\* another thread had released it, and a further thread is inside Get.
C34_Witness ==
  /\ \A i \in Slots : \E o \in Workers : Holds(o, i)
  /\ \E o \in Workers : rsv.holder[o].ptr \in rsv.freed /\ rsv.holder[o].calls = MaxGets
  /\ \E o \in Workers : rsv.holder[o].ptr = NoId /\ rsv.holder[o].pc = "load"


\* C35: for every root address, desc_pool_ is the smallest multiple of
\* kPMEMLineSize that is not below the root address, and the kMaxThreadNum
\* descriptors that start at desc_pool_ end inside the root object of
\* kDescPoolSize bytes.
C35_AlignedBase ==
  pool.step = "ready" =>
    /\ pool.desc_pool % kPMEMLineSize = 0
    /\ pool.desc_pool >= pool.root
    /\ pool.desc_pool - pool.root < kPMEMLineSize
    /\ pool.desc_pool + kMaxThreadNum * kDescSize * kPMEMLineSize
         <= pool.root + kDescPoolSize

\* The root object starts one byte behind a line boundary: desc_pool_ is
\* kPMEMLineSize - 1 bytes further on and the last descriptor ends one byte
\* before the end of the root object.
C35_Witness ==
  /\ pool.step = "ready" /\ pool.root = kPMEMLineSize + 1
  /\ pool.desc_pool = 2 * kPMEMLineSize
  /\ pool.desc_pool + kMaxThreadNum * kDescSize * kPMEMLineSize = pool.root + kDescPoolSize - 1


\* C36: in the step in which PCAS returns false, the value it leaves in
\* `expected' has neither the dirty flag nor the descriptor flag.
C36_ExpectedClean ==
  [][\A t \in Threads :
       PCASReturnsFalse(t) => ~IsIntermediate(th'[t].word)]_vars

\* A PCAS has returned false with the locator of a descriptor in `expected':
\* its CAS failed on a word in which the PMwCAS of another thread, still
\* running, has embedded its descriptor.
C36_Witness ==
  \E t \in Threads : \E u \in Threads \ {t} :
    /\ Returned(t, "pcas_false")
    /\ th[t].word = DescAddr(u) /\ mem[th[t].addr] = DescAddr(u)
    /\ InPMwCAS(u)


\* C37: a word that holds the locator of the descriptor of thread t is
\* changed by no step of another thread; thread t changes it only by the
\* Redo or Undo of the target that names it, to new_val or old_val; and every
\* Redo and Undo store goes to a word that holds the locator of its own
\* descriptor.
C37_ExclusiveOwnership ==
  [][\A t \in Threads :
       /\ \A w \in Words :
            (mem[w] = DescAddr(t) /\ mem'[w] # mem[w]) =>
               /\ th[t].pc \in {"redo", "undo"} /\ th'[t] # th[t]
               /\ LET tgt == desc[t].targets[th[t].i + 1]
                  IN /\ tgt.addr = w
                     /\ mem'[w] = IF th[t].pc = "redo" THEN tgt.new_val ELSE tgt.old_val
       /\ (phase = "run" /\ th[t].pc \in {"redo", "undo"} /\ th'[t] # th[t]) =>
            mem[desc[t].targets[th[t].i + 1].addr] = DescAddr(t)]_vars

\* A PMwCAS is about to redo a word that holds its locator while the PLoad
\* of another thread waits in ResolveIntermediateState for the same word.
C37_Witness ==
  \E t \in Threads : \E u \in Threads \ {t} :
    /\ phase = "run" /\ th[t].pc = "redo"
    /\ LET w == desc[t].targets[th[t].i + 1].addr
       IN /\ mem[w] = DescAddr(t)
          /\ th[u].pc = "rs_sleep" /\ th[u].caller = "pload" /\ th[u].addr = w
          /\ th[u].orig = DescAddr(t)


\* The words the loop over desc_pool_[s .. kMaxThreadNum - 1] of the
\* DescriptorPool constructor leaves when it runs to its end on the words m
\* and the descriptors d without being interrupted (fault: a target with a
\* null address has been dereferenced).
RECURSIVE InitializeAll(_, _, _)
InitializeAll(m, d, s) ==
  IF s = kMaxThreadNum THEN [mem |-> m, fault |-> FALSE]
  ELSE LET st0 == [mem |-> m, pm |-> [w \in Words |-> {m[w]}],
                   pend |-> [w \in Words |-> {}], fault |-> FALSE]
           st == IF d[s].status # kCompleted
                   THEN RecoverTargets(st0, d[s], DescAddr(s), 1)
                   ELSE st0
       IN IF st.fault THEN [mem |-> st.mem, fault |-> TRUE]
          ELSE InitializeAll(st.mem, d, s + 1)

\* C38: recovery tolerates a crash: when the constructor has returned after
\* any number of crashes inside the recovery, the words hold what one
\* uninterrupted recovery of the image the first crash has left would have
\* produced; in particular no word holds the locator of a descriptor whose
\* status is kCompleted.
C38_RecoveryRestartable ==
  Recovered =>
    LET r == InitializeAll(gh.found.mem, gh.found.desc, 0)
    IN ~r.fault =>
         /\ mem = r.mem
         /\ \A w \in Words : \A t \in Threads :
              mem[w] = DescAddr(t) => desc[t].status # kCompleted

\* The constructor has returned after a crash inside a PMwCAS call whose
\* locators were embedded, and a crash inside the recovery from it.
C38_Witness ==
  /\ Recovered /\ gh.crashes = 2
  /\ \E t \in Threads :
       /\ gh.cr[t].inop
       /\ gh.found.desc[t].status # kCompleted
       /\ \E w \in Words : gh.found.mem[w] = DescAddr(t)


\* The step is PMwCASDescriptor::Initialize of desc_pool_[t], run by the
\* constructor after a crash that found the owner of the descriptor outside
\* of PMwCAS.
InitializesIdle(t) ==
  /\ phase = "open" /\ slot = t /\ t \in gh.outside
  /\ slot' = t + 1 \/ phase' = "fault"

\* C39: PMwCAS returns with the reset of the descriptor (status_ = kCompleted,
\* target_count_ = 0) not flushed, so the medium may still hold the status
\* and the target count of the finished call; and when a crash finds the
\* owner of a descriptor outside of PMwCAS, the recovery of this descriptor
\* changes the payload of no word (it may clear a dirty flag), whatever
\* status and targets the medium has kept for it.
C39_StaleImageHarmless ==
  [][\A t \in Threads :
       /\ (th[t].pc = "finish" /\ th'[t].pc = "idle") =>
            /\ pendD'[t] = NoPendD
            /\ Hdr(desc[t]) \in pdesc'[t].hdr
            /\ desc[t].status # kCompleted
       /\ InitializesIdle(t) =>
            \A w \in Words :
              ClearFlag(mem'[w], kDirtyFlag) = ClearFlag(mem[w], kDirtyFlag)]_vars

\* The constructor has returned after recovering a descriptor whose owner
\* was outside of PMwCAS at the crash and whose image on the medium had the
\* status and the targets of its last call, one of them a word that held
\* neither its old nor its new value (the locator of another descriptor).
C39_Witness ==
  /\ Recovered
  /\ \E t \in gh.outside :
       /\ gh.found.desc[t].status \in {kSucceeded, kFailed}
       /\ gh.found.desc[t].target_count > 0
       /\ \E i \in 1 .. gh.found.desc[t].target_count :
            LET tgt == gh.found.desc[t].targets[i]
            IN gh.found.mem[tgt.addr] \notin {tgt.old_val, tgt.new_val}


\* Thread t is inside a PMwCAS call whose target j has the address of an
\* earlier target of the call.
SecondEntry(t, j) ==
  /\ InPMwCAS(t) /\ j \in 2 .. th[t].n
  /\ \E i \in 1 .. (j - 1) : desc[t].targets[i].addr = desc[t].targets[j].addr

\* C40: a PMwCAS call on a descriptor that holds one address twice does not
\* commit and returns false, with its locator in no word.  When the first
\* entry has been embedded, every attempt of the second entry loads the
\* locator of the descriptor itself, the embedding gives up after kRetryNum
\* further attempts, and Undo stores the old value of the first entry into
\* the word.
C40_SameAddressTwice ==
  [][\A t \in Threads : \A j \in TargetIdx :
       SecondEntry(t, j) =>
         LET w == desc[t].targets[j].addr
         IN /\ desc'[t].status # kSucceeded
            /\ th'[t].pc \notin {"commit", "commit_drain", "redo"}
            /\ (th[t].pc = "embed_load" /\ th[t].i + 1 = j /\ th'[t] # th[t]) =>
                 /\ mem[w] = DescAddr(t)
                 /\ th'[t].pc = "embed_load" => th'[t].retry = th[t].retry + 1
                 /\ th'[t].pc # "embed_load" =>
                      th[t].retry = kRetryNum /\ th'[t].pc = "undo"
            /\ (th[t].pc = "undo" /\ th[t].i = 0 /\ th'[t] # th[t]) =>
                 mem'[w] = desc[t].targets[1].old_val
            /\ (th[t].pc = "finish" /\ th'[t].pc = "idle") =>
                 /\ th'[t].ret = "pmwcas_false"
                 /\ \A x \in Words : mem'[x] # DescAddr(t)]_vars

\* A PMwCAS call on a descriptor holding one address twice has returned
\* after it had embedded the first entry; the word holds the old value of
\* the first entry.
C40_Witness ==
  \E t \in Threads :
    /\ th[t].pc = "idle" /\ th[t].ret = "pmwcas_false"
    /\ gh.last[t].n = kPMwCASCapacity /\ gh.last[t].embedded = 1
    /\ desc[t].targets[1].addr = desc[t].targets[2].addr
    /\ mem[desc[t].targets[1].addr] = desc[t].targets[1].old_val

====
